---- MODULE Spec2Model ----
(***************************************************************************)
(* Highlight / tag persistence and reconciliation layer of the PDF         *)
(* annotation tool: DatabaseService (example/src/services/database.ts),    *)
(* the controller handlers of App.tsx and the tag dialogs                  *)
(* (TagModal.tsx, TagManagementModal.tsx).                                 *)
(*                                                                         *)
(* The SQL schema is not part of the TypeScript sources; the store         *)
(* (uniqueness constraints, id assignment, absence of cascades,            *)
(* transactions) is modelled from section 3 and section 6 of the           *)
(* specification.                                                          *)
(***************************************************************************)
EXTENDS Integers, Sequences, FiniteSets, TLC

\* ------------------------------------------------------------------------
\* Bounds
\* ------------------------------------------------------------------------
MaxHighlights == 1
MaxTagId == 2
MaxPdfId == 2
MaxClock == 2
MaxCalls == 2
MaxLoaded == 2

\* ------------------------------------------------------------------------
\* Value domains
\* ------------------------------------------------------------------------
\* SQL NULL, JavaScript undefined, and "key not present in a Partial<...>"
NULL == "NULL"
UNDEFINED == "undefined"
ABSENT == "absent"

\* "no row" / null result where the surrounding values are integers
NoId == 0

OK == "ok"
ErrUnique == "UNIQUE constraint failed"
ErrNotFound == "not found in the database"
ErrStore == "store failure"
ErrNoTx == "cannot rollback - no transaction is active"

TagNames == {"a", "A", "b"}
Paths == {"/x/a.pdf", "/x/b.pdf"}
PdfNames == {"a.pdf", "b.pdf"}

\* String.prototype.toLowerCase on the names used
toLowerCase(s) ==
  CASE s = "A" -> "a"
    [] OTHER -> s

\* String.prototype.trim on the inputs used
trim(s) ==
  CASE s = " a" -> "a"
    [] OTHER -> s

\* JavaScript `x || null`: falsy strings (the empty string, undefined) give null
OrNull(x) == IF x \in {"", UNDEFINED, ABSENT, NULL} THEN NULL ELSE x

\* ------------------------------------------------------------------------
\* Positions and JSON (de)serialization
\* ------------------------------------------------------------------------
PosKeys == {"pageNumber", "boundingRect", "rects"}

\* JSON.stringify: members whose value is undefined are dropped
JSONstringify(pos) ==
  [k \in PosKeys |-> IF pos[k] \in {UNDEFINED, ABSENT} THEN ABSENT ELSE pos[k]]

\* JSON.parse: the members of the text become the fields of the object
JSONparse(text) == [k \in PosKeys |-> text[k]]

\* object spread { ...a, ...b }: every key named in b wins, also with value undefined
Spread(a, b) == [k \in DOMAIN a |-> IF b[k] = ABSENT THEN a[k] ELSE b[k]]

\* ------------------------------------------------------------------------
\* State
\* ------------------------------------------------------------------------
VARIABLES
  db,        \* the SQLite store: tables pdfs, highlights, tags, highlight_tags and id sequences
  tx,        \* open transaction of the connection: snapshot to restore on ROLLBACK, or NoTx
  now,       \* the store clock, datetime('now')
  app,       \* App.tsx state: currentPdfId, highlights (in-memory list), nextId,
             \* lastOpenedBookId (localStorage), appState ('viewer' or 'library')
  bulk,      \* position of an in-flight bulkDeleteTags call
  modal,     \* TagModal: the props isOpen and highlight, and the state currentTags,
             \* inputValue, mostUsedTags (suggestions), isLoading, isSaving, error
  last,      \* outcome of the most recently completed operation
  calls,     \* in-flight addTag calls: position, argument and outcome of each
  sidebar,   \* Sidebar.tsx state: availableTags and tagsCache
  flights,   \* in-flight calls of other operations: position, arguments and locals
  conn       \* DatabaseService.db, and the connections Database.load has returned

vars == <<db, tx, now, app, bulk, modal, last, calls, sidebar, flights, conn>>

EmptyDb ==
  [pdfs |-> {}, highlights |-> {}, tags |-> {}, highlight_tags |-> {},
   seqPdfs |-> 0, seqTags |-> 0]

NoTx == [active |-> FALSE, snapshot |-> EmptyDb]

NoBulk == [pc |-> "idle", ids |-> {}, err |-> OK, before |-> EmptyDb]

\* ------------------------------------------------------------------------
\* Store: statements over the tables (schema modelled from the specification)
\* ------------------------------------------------------------------------
\* comparison of the tags.name column: case-insensitive
NameEq(a, b) == toLowerCase(a) = toLowerCase(b)

\* INSERT INTO tags (name) VALUES (?) under the UNIQUE constraint on name
InsertTag(d, name, t) ==
  IF \E r \in d.tags : NameEq(r.name, name)
    THEN [err |-> ErrUnique, db |-> d, lastInsertId |-> NoId]
    ELSE [err |-> OK,
          db |-> [d EXCEPT !.tags = @ \cup {[id |-> d.seqTags + 1, name |-> name, created_at |-> t]},
                           !.seqTags = @ + 1],
          lastInsertId |-> d.seqTags + 1]

\* INSERT INTO highlight_tags (highlight_id, tag_id) under UNIQUE(highlight_id, tag_id);
\* no foreign key is enforced
InsertLink(d, h, tagId) ==
  IF \E l \in d.highlight_tags : l.highlight_id = h /\ l.tag_id = tagId
    THEN [err |-> ErrUnique, db |-> d]
    ELSE [err |-> OK,
          db |-> [d EXCEPT !.highlight_tags = @ \cup {[highlight_id |-> h, tag_id |-> tagId]}]]

\* INSERT INTO pdfs (...) under the UNIQUE constraint on path
InsertPdf(d, name, path, t) ==
  IF \E r \in d.pdfs : r.path = path
    THEN [err |-> ErrUnique, db |-> d, lastInsertId |-> NoId]
    ELSE [err |-> OK,
          db |-> [d EXCEPT !.pdfs = @ \cup {[id |-> d.seqPdfs + 1, name |-> name, path |-> path,
                                             date_added |-> t, last_opened |-> t]},
                           !.seqPdfs = @ + 1],
          lastInsertId |-> d.seqPdfs + 1]

\* INSERT INTO highlights (...) under the UNIQUE constraint on highlight_id
InsertHighlight(d, row) ==
  IF \E r \in d.highlights : r.highlight_id = row.highlight_id
    THEN [err |-> ErrUnique, db |-> d]
    ELSE [err |-> OK, db |-> [d EXCEPT !.highlights = @ \cup {row}]]

\* ------------------------------------------------------------------------
\* DatabaseService (database.ts)
\* ------------------------------------------------------------------------
getPdfByPath(d, path) == {r \in d.pdfs : r.path = path}

addPdf(d, name, path, t) == InsertPdf(d, name, path, t)

\* updatePdfLastOpened whose UPDATE has no WHERE clause
updatePdfLastOpened_NoWhere(d, id, t) ==
  [d EXCEPT !.pdfs = {[r EXCEPT !.last_opened = t] : r \in @}]

updatePdfLastOpened(d, id, t) ==
  [d EXCEPT !.pdfs = {IF r.id = id THEN [r EXCEPT !.last_opened = t] ELSE r : r \in @}]

deletePdf(d, id) == [d EXCEPT !.pdfs = {r \in @ : r.id # id}]

\* the row written by addHighlight for an IHighlight
HighlightRow(pdfId, hl, t) ==
  [pdf_id |-> pdfId,
   highlight_id |-> hl.id,
   content_text |-> OrNull(hl.content.text),
   content_image |-> OrNull(hl.content.image),
   comment_text |-> OrNull(hl.comment.text),
   comment_emoji |-> OrNull(hl.comment.emoji),
   position_data |-> JSONstringify(hl.position),
   page_number |-> hl.position.pageNumber,
   created_at |-> t]

addHighlight(d, pdfId, hl, t) == InsertHighlight(d, HighlightRow(pdfId, hl, t))

deleteHighlight(d, h) == [d EXCEPT !.highlights = {r \in @ : r.highlight_id # h}]

highlightExists(d, h) == Cardinality({r \in d.highlights : r.highlight_id = h}) > 0

getTagByName(d, name) ==
  LET result == {r \in d.tags : NameEq(r.name, name)}
  IN IF result # {} THEN (CHOOSE r \in result : TRUE).id ELSE NoId

\* addTag's catch block that rethrows the constraint error without a lookup
addTagCatch_NoLookup(d, name, err) == [pc |-> "rejected", err |-> err, ret |-> NoId]

\* addTag's catch block whose lookup compares the name by its exact characters
addTagCatch_CaseSensitive(d, name, err) ==
  IF err = ErrUnique /\ (\E r \in d.tags : r.name = name)
    THEN [pc |-> "resolved", err |-> OK, ret |-> (CHOOSE r \in d.tags : r.name = name).id]
    ELSE [pc |-> "rejected", err |-> err, ret |-> NoId]

\* addTag's catch block, run on the store as it is when the lookup executes
addTagCatch(d, name, err) ==
  IF err = ErrUnique /\ getTagByName(d, name) # NoId
    THEN [pc |-> "resolved", err |-> OK, ret |-> getTagByName(d, name)]
    ELSE [pc |-> "rejected", err |-> err, ret |-> NoId]

addTag(d, name, t) ==
  LET ins == InsertTag(d, name, t)
  IN IF ins.err = OK
       THEN [err |-> OK, db |-> ins.db, ret |-> ins.lastInsertId]
       ELSE IF ins.err = ErrUnique /\ getTagByName(d, name) # NoId
              THEN [err |-> OK, db |-> d, ret |-> getTagByName(d, name)]
              ELSE [err |-> ins.err, db |-> d, ret |-> NoId]

addHighlightTag(d, h, tagName, t) ==
  IF ~highlightExists(d, h)
    THEN [err |-> ErrNotFound, db |-> d]
    ELSE LET tg == addTag(d, tagName, t)
         IN IF tg.err # OK
              THEN [err |-> tg.err, db |-> d]
              ELSE LET ln == InsertLink(tg.db, h, tg.ret)
                   IN IF ln.err \in {OK, ErrUnique}
                        THEN [err |-> OK, db |-> ln.db]
                        ELSE [err |-> ln.err, db |-> tg.db]

\* removeHighlightTag whose DELETE names the highlight only
removeHighlightTag_AllOfHighlight(d, h, tagId) ==
  [d EXCEPT !.highlight_tags = {l \in @ : l.highlight_id # h}]

\* DELETE FROM highlight_tags WHERE highlight_id = ? AND tag_id = ?
removeHighlightTag(d, h, tagId) ==
  [d EXCEPT !.highlight_tags = {l \in @ : ~(l.highlight_id = h /\ l.tag_id = tagId)}]

\* ids of the tags joined to the links of h (INNER JOIN tags ON t.id = ht.tag_id)
getHighlightTags(d, h) ==
  {r \in d.tags : \E l \in d.highlight_tags : l.highlight_id = h /\ l.tag_id = r.id}

TagIdsOf(rows) == {r.id : r \in rows}

\* position of a name in ORDER BY name ASC for the names used (the column compares
\* names without regard to case)
NameRank(n) ==
  CASE toLowerCase(n) = "a" -> 1
    [] OTHER -> 2

\* the rows of a result in ORDER BY name ASC
OrderByName(rows) ==
  CHOOSE s \in [1..Cardinality(rows) -> rows] :
    /\ \A i, j \in 1..Cardinality(rows) : i # j => s[i] # s[j]
    /\ \A i, j \in 1..Cardinality(rows) : i < j => NameRank(s[i].name) <= NameRank(s[j].name)

\* the names of a result in ORDER BY name ASC
SortedNames(names) ==
  LET n == Cardinality(names)
  IN CHOOSE s \in [1..n -> names] :
       /\ \A i, j \in 1..n : i # j => s[i] # s[j]
       /\ \A i, j \in 1..n : i < j => NameRank(s[i]) < NameRank(s[j])

\* getAllTags(): SELECT * FROM tags ORDER BY name ASC, as the names of the rows
getAllTags(d) == SortedNames({r.name : r \in d.tags})

DeleteLinksOfTags(d, ids) == [d EXCEPT !.highlight_tags = {l \in @ : l.tag_id \notin ids}]

DeleteTagRows(d, ids) == [d EXCEPT !.tags = {r \in @ : r.id \notin ids}]


\* ------------------------------------------------------------------------
\* Initial state
\* ------------------------------------------------------------------------
CallIds == 1..MaxCalls
NoCall == [pc |-> "idle", name |-> "", err |-> OK, ret |-> NoId]

\* Sidebar before its first load: no tags listed, tagsCache null; clock is Date.now()
NoSidebar == [availableTags |-> <<>>, clock |-> 0,
              tagsCache |-> [valid |-> FALSE, tags |-> <<>>, timestamp |-> 0, key |-> NoId]]

\* a call made from outside has no handler waiting for it
NoCtx == [op |-> ""]

\* no call in flight; a call in flight has its operation, the statement it awaits, its
\* arguments and locals, and the frame of the handler that awaits it (ctx)
NoFlight == [op |-> "", pc |-> "idle", h |-> NoId, arg |-> "", local |-> NULL, err |-> OK,
             ctx |-> NoCtx]

\* DatabaseService.db before initialize: null, and no connection loaded
NoConn == [db |-> NoId, loads |-> 0]

\* the messages of setError
AddError == "Failed to add tag"
SaveError == "Failed to save tags"

\* the dialog when it is not mounted, and (with isOpen and highlight set) as it mounts:
\* useState([]), useState(''), useState(false), useState(false), useState(null)
NoModal == [isOpen |-> FALSE, highlight |-> NoId, currentTags |-> <<>>, inputValue |-> "",
            suggestions |-> {}, isLoading |-> FALSE, isSaving |-> FALSE, error |-> NULL]

\* testHighlights[url] ? [...testHighlights[url]] : []: the list a url stands for in the
\* imported table of sample highlights, empty for a url that is not a key of it; a
\* sample highlight has an id no getNextId call returns and no row in the store
TestHighlightId == -1

testHighlights ==
  {<<>>,
   <<[id |-> TestHighlightId,
      content |-> [text |-> "abc", image |-> UNDEFINED],
      comment |-> [text |-> "note", emoji |-> ""],
      position |-> [pageNumber |-> "2", boundingRect |-> "R1", rects |-> "RS1"]]>>}

\* the url of the page (?url=...) selects the initial list
Init ==
  /\ db = EmptyDb
  /\ tx = NoTx
  /\ now = 0
  /\ app \in {[currentPdfId |-> NoId, highlights |-> hs, nextId |-> 1,
               lastOpenedBookId |-> NoId, appState |-> "viewer"] : hs \in testHighlights}
  /\ bulk = NoBulk
  /\ modal = NoModal
  /\ last = [op |-> "none", arg |-> "", ret |-> NoId, err |-> OK, rows |-> 0]
  /\ calls = [c \in CallIds |-> NoCall]
  /\ sidebar = NoSidebar
  /\ flights = [c \in CallIds |-> NoFlight]
  /\ conn = NoConn

\* ------------------------------------------------------------------------
\* Reading highlights back
\* ------------------------------------------------------------------------
\* JavaScript `x || undefined` and `x || ""` on a nullable column
OrUndefined(x) == IF x \in {"", NULL} THEN UNDEFINED ELSE x
OrEmpty(x) == IF x \in {"", NULL} THEN "" ELSE x

\* a conversion that reads the comment like the content: an empty column is undefined
highlightRecordToIHighlight_CommentUndefined(record) ==
  [id |-> record.highlight_id,
   content |-> [text |-> OrUndefined(record.content_text),
                image |-> OrUndefined(record.content_image)],
   comment |-> [text |-> OrUndefined(record.comment_text),
                emoji |-> OrUndefined(record.comment_emoji)],
   position |-> JSONparse(record.position_data)]

highlightRecordToIHighlight(record) ==
  [id |-> record.highlight_id,
   content |-> [text |-> OrUndefined(record.content_text),
                image |-> OrUndefined(record.content_image)],
   comment |-> [text |-> OrEmpty(record.comment_text),
                emoji |-> OrEmpty(record.comment_emoji)],
   position |-> JSONparse(record.position_data)]

\* the possible results of SELECT * FROM highlights WHERE pdf_id = ? ORDER BY created_at DESC:
\* every ordering of the matching rows that is descending in created_at
getHighlightsForPdf(d, pdfId) ==
  LET rows == {r \in d.highlights : r.pdf_id = pdfId}
      n == Cardinality(rows)
  IN {[i \in 1..n |-> highlightRecordToIHighlight(s[i])] :
        s \in {q \in [1..n -> rows] :
                 /\ \A i, j \in 1..n : i # j => q[i] # q[j]
                 /\ \A i, j \in 1..n : i < j => q[i].created_at >= q[j].created_at}}

\* ------------------------------------------------------------------------
\* Inputs
\* ------------------------------------------------------------------------
\* fileName = path.split(/[\\/]/).pop()
FileNameOf(path) ==
  CASE path = "/x/a.pdf" -> "a.pdf"
    [] OTHER -> "b.pdf"

\* highlights produced by a selection gesture: a text highlight and an area highlight
SampleHighlight ==
  [content |-> [text |-> "abc", image |-> UNDEFINED],
   comment |-> [text |-> "note", emoji |-> ""],
   position |-> [pageNumber |-> "2", boundingRect |-> "R1", rects |-> "RS1"]]

SampleAreaHighlight ==
  [content |-> [text |-> UNDEFINED, image |-> "img1"],
   comment |-> [text |-> "", emoji |-> "e"],
   position |-> [pageNumber |-> "2", boundingRect |-> "R1", rects |-> ABSENT]]

\* Partial<ScaledPosition>: each key absent, present with a value, or present as undefined
PositionPatches ==
  {p \in [PosKeys -> {"1", "R2", UNDEFINED, ABSENT}] :
     /\ p["pageNumber"] \in {"1", UNDEFINED, ABSENT}
     /\ p["boundingRect"] \in {"R2", ABSENT}
     /\ p["rects"] = ABSENT}

\* Partial<Content>
ContentPatches == [text : {"", UNDEFINED, ABSENT}, image : {"img2", ABSENT}]

NoPosition == [k \in PosKeys |-> ABSENT]
NoContent == [text |-> ABSENT, image |-> ABSENT]

\* the calls made: a patch of the position, a patch of the content, and the resize of
\* an area highlight, which patches boundingRect and image together
Patches ==
  {<<p, NoContent>> : p \in PositionPatches}
    \cup {<<NoPosition, c>> : c \in ContentPatches}
    \cup {<<[NoPosition EXCEPT !["boundingRect"] = "R2"], [NoContent EXCEPT !.image = "img2"]>>}

\* ------------------------------------------------------------------------
\* Actions
\* ------------------------------------------------------------------------
Idle == bulk.pc = "idle"

\* an operation completes: its name argument (if any), the id it returned or was called
\* with, the error it rejected with, and the number of rows it removed or restored
Done(op, arg, ret, err, rows) ==
  last' = [op |-> op, arg |-> arg, ret |-> ret, err |-> err, rows |-> rows]

\* the store clock advances
Tick ==
  /\ Idle
  /\ now < MaxClock
  /\ now' = now + 1
  /\ UNCHANGED <<db, tx, app, bulk, modal, last, calls, sidebar, flights, conn>>

\* no call is between two of its awaited statements
FlightsIdle == \A c \in CallIds : flights[c].pc = "idle"

\* a caller that awaits each call before it makes the next: nothing is in flight
Alone == Idle /\ FlightsIdle

\* the call of caller c returns or throws
Return(c) == flights' = [flights EXCEPT ![c] = NoFlight]

\* this step is the last one of a call of `op` by caller c
Ends(c, op) ==
  /\ flights[c].op = op
  /\ flights[c].pc # "idle"
  /\ flights'[c].pc = "idle"

\* the handlers whose continuations set state of the tag dialog, and of the sidebar
DialogOps == {"loadTags", "handleAddTag", "handleSave"}
SidebarOps == {"handleSave", "handleSaveTags", "handleConfirmDelete", "handleTagsDeleted",
               "loadAvailableTags"}

\* a frame after the component it belongs to has been unmounted: what it sets later
\* is dropped
FrameOff(frame, sidebarToo) ==
  LET f1 == IF frame.op \in DialogOps THEN [frame EXCEPT !.local.live = FALSE] ELSE frame
  IN IF sidebarToo /\ frame.op \in SidebarOps THEN [f1 EXCEPT !.local.sbLive = FALSE] ELSE f1

\* a call in flight after the tag dialog (and the sidebar) has been unmounted
Unmounted(f, sidebarToo) ==
  IF f.ctx.op # "" THEN [f EXCEPT !.ctx = FrameOff(@, sidebarToo)] ELSE FrameOff(f, sidebarToo)

\* ------------------------------------------------------------------------
\* App.openPdf, one step for each awaited statement and its continuation
\* ------------------------------------------------------------------------
\* openPdf(filePath, fileName) is called; the file exists and is read
OpenPdfCall(c, filePath, fileName) ==
  /\ flights[c].pc = "idle"
  /\ flights' = [flights EXCEPT ![c] =
                   [op |-> "openPdf", pc |-> "getPdfByPath", h |-> NoId, arg |-> filePath,
                    local |-> fileName, err |-> OK, ctx |-> NoCtx]]
  /\ UNCHANGED <<db, tx, now, app, bulk, modal, last, calls, sidebar, conn>>

\* let pdfRecord = await databaseService.getPdfByPath(filePath)
OpenPdfSelect(c) ==
  /\ flights[c].op = "openPdf"
  /\ flights[c].pc = "getPdfByPath"
  /\ LET found == getPdfByPath(db, flights[c].arg)
     IN flights' = [flights EXCEPT
                      ![c].pc = IF found = {} THEN "addPdf" ELSE "updatePdfLastOpened",
                      ![c].h = IF found = {} THEN NoId ELSE (CHOOSE r \in found : TRUE).id]
  /\ UNCHANGED <<db, tx, now, app, bulk, modal, last, calls, sidebar, conn>>

\* await databaseService.addPdf(fileName, filePath), or
\* await databaseService.updatePdfLastOpened(pdfRecord.id); an error is rethrown
OpenPdfWrite(c) ==
  /\ flights[c].op = "openPdf"
  /\ flights[c].pc \in {"addPdf", "updatePdfLastOpened"}
  /\ IF flights[c].pc = "addPdf"
       THEN \E ins \in {addPdf(db, flights[c].local, flights[c].arg, now)} :
              /\ ins.db.seqPdfs <= MaxPdfId
              /\ db' = ins.db
              /\ IF ins.err = OK
                   THEN /\ flights' = [flights EXCEPT ![c].pc = "setItem",
                                                      ![c].h = ins.lastInsertId]
                        /\ UNCHANGED last
                   ELSE /\ Return(c)
                        /\ Done("openPdf", "", NoId, ins.err, 0)
       ELSE /\ db' = updatePdfLastOpened(db, flights[c].h, now)
            /\ flights' = [flights EXCEPT ![c].pc = "setItem"]
            /\ UNCHANGED last
  /\ UNCHANGED <<tx, now, app, bulk, modal, calls, sidebar, conn>>

\* localStorage.setItem('lastOpenedBookId', pdfRecord.id.toString())
OpenPdfRemember(c) ==
  /\ flights[c].op = "openPdf"
  /\ flights[c].pc = "setItem"
  /\ app' = [app EXCEPT !.lastOpenedBookId = flights[c].h]
  /\ flights' = [flights EXCEPT ![c].pc = "getHighlightsForPdf"]
  /\ UNCHANGED <<db, tx, now, bulk, modal, last, calls, sidebar, conn>>

\* const existingHighlights = await databaseService.getHighlightsForPdf(pdfRecord.id)
OpenPdfLoad(c) ==
  /\ flights[c].op = "openPdf"
  /\ flights[c].pc = "getHighlightsForPdf"
  /\ \E existingHighlights \in getHighlightsForPdf(db, flights[c].h) :
       flights' = [flights EXCEPT ![c].pc = "setState", ![c].local = existingHighlights]
  /\ UNCHANGED <<db, tx, now, app, bulk, modal, last, calls, sidebar, conn>>

\* setCurrentPdfId(pdfRecord.id); setHighlights(existingHighlights); setAppState('viewer')
OpenPdfShow(c) ==
  /\ flights[c].op = "openPdf"
  /\ flights[c].pc = "setState"
  /\ app' = [app EXCEPT !.currentPdfId = flights[c].h,
                        !.highlights = flights[c].local,
                        !.appState = "viewer"]
  /\ Return(c)
  /\ Done("openPdf", "", flights[c].h, OK, 0)
  /\ UNCHANGED <<db, tx, now, bulk, modal, calls, sidebar, conn>>

\* the statements of an openPdf call in flight
openPdf(c) ==
  \/ OpenPdfSelect(c)
  \/ OpenPdfWrite(c)
  \/ OpenPdfRemember(c)
  \/ OpenPdfLoad(c)
  \/ OpenPdfShow(c)

\* PdfLibrary.handleDeletePdf -> databaseService.deletePdf
DeletePdf(id) ==
  /\ Idle
  /\ db' = deletePdf(db, id)
  /\ Done("deletePdf", "", NoId, OK, Cardinality(db.pdfs \ db'.pdfs))
  /\ UNCHANGED <<tx, now, app, bulk, modal, calls, sidebar, flights, conn>>

\* ------------------------------------------------------------------------
\* App.addHighlight: the awaited INSERT, then the setter
\* ------------------------------------------------------------------------
\* addHighlight(highlight) is called in the viewer: the id is drawn and the render's
\* currentPdfId is the one the store write will use; without a current document nothing
\* is awaited and the highlight is prepended at once. At most `max` highlights are made.
AppAddHighlightCall(c, highlight, max) ==
  /\ flights[c].pc = "idle"
  /\ app.appState = "viewer"
  /\ app.nextId <= max
  /\ LET newHighlight == [id |-> app.nextId, content |-> highlight.content,
                          comment |-> highlight.comment, position |-> highlight.position]
     IN IF app.currentPdfId # NoId
          THEN /\ flights' = [flights EXCEPT ![c] =
                                [op |-> "addHighlight", pc |-> "insert",
                                 h |-> app.currentPdfId, arg |-> "", local |-> newHighlight,
                                 err |-> OK, ctx |-> NoCtx]]
               /\ app' = [app EXCEPT !.nextId = @ + 1]
               /\ UNCHANGED last
          ELSE /\ app' = [app EXCEPT !.highlights = <<newHighlight>> \o @, !.nextId = @ + 1]
               /\ Done("addHighlight", "", NoId, OK, 0)
               /\ UNCHANGED flights
  /\ UNCHANGED <<db, tx, now, bulk, modal, calls, sidebar, conn>>

\* await databaseService.addHighlight(currentPdfId, newHighlight); an error is logged
AppAddHighlightInsert(c) ==
  /\ flights[c].op = "addHighlight"
  /\ flights[c].pc = "insert"
  /\ \E res \in {addHighlight(db, flights[c].h, flights[c].local, now)} :
       /\ db' = res.db
       /\ flights' = [flights EXCEPT ![c].pc = "set", ![c].err = res.err]
  /\ UNCHANGED <<tx, now, app, bulk, modal, last, calls, sidebar, conn>>

\* setHighlights((prevHighlights) => [newHighlight, ...prevHighlights])
AppAddHighlightSet(c) ==
  /\ flights[c].op = "addHighlight"
  /\ flights[c].pc = "set"
  /\ app' = [app EXCEPT !.highlights = <<flights[c].local>> \o @]
  /\ Return(c)
  /\ Done("addHighlight", "", NoId, flights[c].err, 0)
  /\ UNCHANGED <<db, tx, now, bulk, modal, calls, sidebar, conn>>

\* the statements of an App.addHighlight call in flight
AppAddHighlight(c) ==
  \/ AppAddHighlightInsert(c)
  \/ AppAddHighlightSet(c)

\* Sidebar "Reset highlights": setHighlights([])
resetHighlights ==
  /\ app.appState = "viewer"
  /\ app' = [app EXCEPT !.highlights = <<>>]
  /\ Done("resetHighlights", "", NoId, OK, 0)
  /\ UNCHANGED <<db, tx, now, bulk, modal, calls, sidebar, flights, conn>>

\* Sidebar "Toggle PDF document": setUrl(newUrl); setHighlights(testHighlights[newUrl]
\* ? [...testHighlights[newUrl]] : [])
toggleDocument ==
  /\ app.appState = "viewer"
  /\ \E hs \in testHighlights : app' = [app EXCEPT !.highlights = hs]
  /\ Done("toggleDocument", "", NoId, OK, 0)
  /\ UNCHANGED <<db, tx, now, bulk, modal, calls, sidebar, flights, conn>>

\* Sidebar "All PDFs": setAppState('library'); the library view renders PdfLibrary only,
\* so Sidebar (availableTags, tagsCache) and TagModal are unmounted and lose their
\* state, and what their handlers in flight set later is dropped
showAllPdfs ==
  /\ app.appState = "viewer"
  /\ app' = [app EXCEPT !.appState = "library"]
  /\ sidebar' = [NoSidebar EXCEPT !.clock = sidebar.clock]
  /\ modal' = NoModal
  /\ flights' = [c \in CallIds |-> Unmounted(flights[c], TRUE)]
  /\ Done("showAllPdfs", "", NoId, OK, 0)
  /\ UNCHANGED <<db, tx, now, bulk, calls, conn>>

\* PdfLibrary "Back to viewer": setAppState('viewer')
backToViewer ==
  /\ app.appState = "library"
  /\ app' = [app EXCEPT !.appState = "viewer"]
  /\ Done("backToViewer", "", NoId, OK, 0)
  /\ UNCHANGED <<db, tx, now, bulk, modal, calls, sidebar, flights, conn>>

DeleteHighlight(h) ==
  /\ Idle
  /\ db' = deleteHighlight(db, h)
  /\ Done("deleteHighlight", "", NoId, OK, Cardinality(db.highlights \ db'.highlights))
  /\ UNCHANGED <<tx, now, app, bulk, modal, calls, sidebar, flights, conn>>

\* ------------------------------------------------------------------------
\* Handlers that await store calls: their frames and continuations
\* ------------------------------------------------------------------------
\* the Tag objects the dialog holds
TagOf(r) == [id |-> r.id, name |-> r.name]

\* the elements of a list
Elems(s) == {s[i] : i \in DOMAIN s}

\* currentTags.some(tag => tag.name.toLowerCase() === trimmedName.toLowerCase())
InSelection(tags, trimmedName) ==
  \E i \in DOMAIN tags : toLowerCase(tags[i].name) = toLowerCase(trimmedName)

\* finalTags.filter(finalTag => !originalTags.some(originalTag => originalTag.id === finalTag.id))
tagsToAdd(finalTags, originalTags) ==
  LET isNew(finalTag) ==
        ~\E i \in DOMAIN originalTags : originalTags[i].id = finalTag.id
  IN SelectSeq(finalTags, isNew)

\* a diff that removes every original tag
tagsToRemove_All(finalTags, originalTags) ==
  originalTags

\* originalTags.filter(originalTag => !finalTags.some(finalTag => finalTag.id === originalTag.id))
tagsToRemove(finalTags, originalTags) ==
  LET isGone(originalTag) ==
        ~\E i \in DOMAIN finalTags : finalTags[i].id = originalTag.id
  IN SelectSeq(originalTags, isGone)

\* a save that runs its removes before its adds
SaveNext_RemoveFirst(frame) ==
  IF frame.local.toRemove # <<>>
    THEN [frame EXCEPT !.pc = "removing"]
    ELSE IF frame.local.toAdd # <<>>
      THEN [op |-> "addHighlightTag", pc |-> "exists", h |-> frame.h,
            arg |-> Head(frame.local.toAdd).name, local |-> NoId, err |-> OK,
            ctx |-> [frame EXCEPT !.pc = "adding", !.local.toAdd = Tail(@)]]
      ELSE [frame EXCEPT !.pc = "close"]

\* the statement handleSave awaits next: addHighlightTag(highlight.id, tag.name) for the
\* next tag of tagsToAdd, then removeHighlightTag for the tags of tagsToRemove, then
\* onSave and onClose
SaveNext(frame) ==
  IF frame.local.toAdd # <<>>
    THEN [op |-> "addHighlightTag", pc |-> "exists", h |-> frame.h,
          arg |-> Head(frame.local.toAdd).name, local |-> NoId, err |-> OK,
          ctx |-> [frame EXCEPT !.pc = "adding", !.local.toAdd = Tail(@)]]
    ELSE IF frame.local.toRemove # <<>>
      THEN [frame EXCEPT !.pc = "removing"]
      ELSE [frame EXCEPT !.pc = "close"]

\* a save that goes on with its add loop after an addHighlightTag has failed
Resume_IgnoreError(frame, ret, err) ==
  CASE frame.op = "handleAddTag" ->
         [frame EXCEPT !.pc = "resume", !.local.ret = ret, !.err = err]
    [] frame.op = "handleSave" /\ frame.pc = "autoAdd" ->
         [frame EXCEPT !.pc = "getHighlightTags",
                       !.local.finalTags =
                          IF err = OK THEN Append(@, [id |-> ret, name |-> frame.arg]) ELSE @]
    [] OTHER ->
         SaveNext([frame EXCEPT !.local.added = @ + 1])

\* the handler that awaits a store call gets its result: handleAddTag resumes after
\* addTag; handleSave logs an error of the addTag for the text in the input field and
\* goes on, and leaves its add loop for the catch block at the first error
Resume(frame, ret, err) ==
  CASE frame.op = "handleAddTag" ->
         [frame EXCEPT !.pc = "resume", !.local.ret = ret, !.err = err]
    [] frame.op = "handleSave" /\ frame.pc = "autoAdd" ->
         [frame EXCEPT !.pc = "getHighlightTags",
                       !.local.finalTags =
                          IF err = OK THEN Append(@, [id |-> ret, name |-> frame.arg]) ELSE @]
    [] OTHER ->
         IF err = OK
           THEN SaveNext([frame EXCEPT !.local.added = @ + 1])
           ELSE [frame EXCEPT !.pc = "catch", !.err = err]

\* the store call of caller c returns or throws: to the handler that awaits it, or to
\* the outside
Complete(c, op, arg, ret, err, rows) ==
  IF flights[c].ctx.op = ""
    THEN /\ Return(c)
         /\ Done(op, arg, ret, err, rows)
    ELSE /\ flights' = [flights EXCEPT ![c] = Resume(flights[c].ctx, ret, err)]
         /\ UNCHANGED last

\* ------------------------------------------------------------------------
\* addTag and addHighlightTag, one step for each awaited statement
\* ------------------------------------------------------------------------
\* addTag(name) is called
AddTagStart(c, name) ==
  /\ flights[c].pc = "idle"
  /\ flights' = [flights EXCEPT ![c] =
                   [op |-> "addTag", pc |-> "insertTag", h |-> NoId, arg |-> name,
                    local |-> NoId, err |-> OK, ctx |-> NoCtx]]
  /\ UNCHANGED <<db, tx, now, app, bulk, modal, last, calls, sidebar, conn>>

\* addHighlightTag that resolves the tag without checking the highlight
AddHighlightTagCall_NoCheck(c, h, tagName) ==
  /\ flights[c].pc = "idle"
  /\ flights' = [flights EXCEPT ![c] =
                   [op |-> "addHighlightTag", pc |-> "insertTag", h |-> h, arg |-> tagName,
                    local |-> NoId, err |-> OK, ctx |-> NoCtx]]
  /\ UNCHANGED <<db, tx, now, app, bulk, modal, last, calls, sidebar, conn>>

\* addHighlightTag(highlightId, tagName) is called
AddHighlightTagCall(c, h, tagName) ==
  /\ flights[c].pc = "idle"
  /\ flights' = [flights EXCEPT ![c] =
                   [op |-> "addHighlightTag", pc |-> "exists", h |-> h, arg |-> tagName,
                    local |-> NoId, err |-> OK, ctx |-> NoCtx]]
  /\ UNCHANGED <<db, tx, now, app, bulk, modal, last, calls, sidebar, conn>>

\* await this.highlightExists(highlightId); throw if the row is missing
AddHighlightTagExists(c) ==
  /\ flights[c].op = "addHighlightTag"
  /\ flights[c].pc = "exists"
  /\ IF highlightExists(db, flights[c].h)
       THEN /\ flights' = [flights EXCEPT ![c].pc = "insertTag"]
            /\ UNCHANGED last
       ELSE Complete(c, "addHighlightTag", flights[c].arg, flights[c].h, ErrNotFound, 0)
  /\ UNCHANGED <<db, tx, now, app, bulk, modal, calls, sidebar, conn>>

\* the call of addTag (its own, or the one addHighlightTag awaits) has its tag id
TagResolved(c, tagId) ==
  IF flights[c].op = "addTag"
    THEN Complete(c, "addTag", flights[c].arg, tagId, OK, 0)
    ELSE /\ flights' = [flights EXCEPT ![c].pc = "insertLink", ![c].local = tagId,
                                       ![c].err = OK]
         /\ UNCHANGED last

\* the call of addTag throws, and so does the addHighlightTag that awaits it
TagRejected(c, err) ==
  Complete(c, flights[c].op, flights[c].arg, flights[c].h, err, 0)

\* addTag whose catch block rethrows the constraint error instead of looking the row up
TagInsert_Rethrow(c) ==
  /\ flights[c].op \in {"addTag", "addHighlightTag"}
  /\ flights[c].pc = "insertTag"
  /\ \E ins \in {InsertTag(db, flights[c].arg, now)} :
       /\ ins.db.seqTags <= MaxTagId
       /\ db' = ins.db
       /\ IF ins.err = OK
            THEN TagResolved(c, ins.lastInsertId)
            ELSE TagRejected(c, ins.err)
  /\ UNCHANGED <<tx, now, app, bulk, modal, calls, sidebar, conn>>

\* INSERT INTO tags (name) VALUES (?) executes: addTag returns lastInsertId, or enters
\* its catch block with the error
TagInsert(c) ==
  /\ flights[c].op \in {"addTag", "addHighlightTag"}
  /\ flights[c].pc = "insertTag"
  /\ \E ins \in {InsertTag(db, flights[c].arg, now)} :
       /\ ins.db.seqTags <= MaxTagId
       /\ db' = ins.db
       /\ IF ins.err = OK
            THEN TagResolved(c, ins.lastInsertId)
            ELSE /\ flights' = [flights EXCEPT ![c].pc = "getTagByName", ![c].err = ins.err]
                 /\ UNCHANGED last
  /\ UNCHANGED <<tx, now, app, bulk, modal, calls, sidebar, conn>>

\* const existing = await this.getTagByName(name) of the catch block executes, on the
\* store as it is now: return existing.id, or rethrow the error of the INSERT
TagLookup(c) ==
  /\ flights[c].op \in {"addTag", "addHighlightTag"}
  /\ flights[c].pc = "getTagByName"
  /\ \E res \in {addTagCatch(db, flights[c].arg, flights[c].err)} :
       IF res.pc = "resolved"
         THEN TagResolved(c, res.ret)
         ELSE TagRejected(c, res.err)
  /\ UNCHANGED <<db, tx, now, app, bulk, modal, calls, sidebar, conn>>

\* the INSERT fails in the store with an error that is no constraint error: the catch
\* block throws it again
TagInsertF(c) ==
  /\ flights[c].op \in {"addTag", "addHighlightTag"}
  /\ flights[c].pc = "insertTag"
  /\ TagRejected(c, ErrStore)
  /\ UNCHANGED <<db, tx, now, app, bulk, modal, calls, sidebar, conn>>

\* the lookup of the catch block fails in the store: its error is logged and the error
\* of the INSERT is thrown again
TagLookupF(c) ==
  /\ flights[c].op \in {"addTag", "addHighlightTag"}
  /\ flights[c].pc = "getTagByName"
  /\ TagRejected(c, flights[c].err)
  /\ UNCHANGED <<db, tx, now, app, bulk, modal, calls, sidebar, conn>>

\* the statements of an addTag call in flight
AddTag(c) ==
  \/ TagInsert(c)
  \/ TagLookup(c)

\* addHighlightTag that rethrows the constraint error of the link INSERT
AddHighlightTagLink_RethrowDuplicate(c) ==
  /\ flights[c].op = "addHighlightTag"
  /\ flights[c].pc = "insertLink"
  /\ \E ln \in {InsertLink(db, flights[c].h, flights[c].local)} :
       /\ db' = ln.db
       /\ Complete(c, "addHighlightTag", flights[c].arg, flights[c].h, ln.err,
                   Cardinality(ln.db.highlight_tags \ db.highlight_tags))
  /\ UNCHANGED <<tx, now, app, bulk, modal, calls, sidebar, conn>>

\* INSERT INTO highlight_tags (highlight_id, tag_id); a constraint error is swallowed
AddHighlightTagLink(c) ==
  /\ flights[c].op = "addHighlightTag"
  /\ flights[c].pc = "insertLink"
  /\ \E ln \in {InsertLink(db, flights[c].h, flights[c].local)} :
       /\ db' = ln.db
       /\ Complete(c, "addHighlightTag", flights[c].arg, flights[c].h,
                   IF ln.err \in {OK, ErrUnique} THEN OK ELSE ln.err,
                   Cardinality(ln.db.highlight_tags \ db.highlight_tags))
  /\ UNCHANGED <<tx, now, app, bulk, modal, calls, sidebar, conn>>

\* the SELECT of highlightExists fails in the store: its catch block logs the error
\* and returns false, and addHighlightTag throws 'highlight not found'
AddHighlightTagExistsF(c) ==
  /\ flights[c].op = "addHighlightTag"
  /\ flights[c].pc = "exists"
  /\ Complete(c, "addHighlightTag", flights[c].arg, flights[c].h, ErrNotFound, 0)
  /\ UNCHANGED <<db, tx, now, app, bulk, modal, calls, sidebar, conn>>

\* the link INSERT fails in the store with an error that is no constraint error: it is
\* thrown again
AddHighlightTagLinkF(c) ==
  /\ flights[c].op = "addHighlightTag"
  /\ flights[c].pc = "insertLink"
  /\ Complete(c, "addHighlightTag", flights[c].arg, flights[c].h, ErrStore, 0)
  /\ UNCHANGED <<db, tx, now, app, bulk, modal, calls, sidebar, conn>>

\* the statements of an addHighlightTag call in flight, one of them failing in the store
AddHighlightTagFault(c) ==
  \/ AddHighlightTagExistsF(c)
  \/ TagInsertF(c)
  \/ TagLookupF(c)
  \/ AddHighlightTagLinkF(c)

\* the statements of an addHighlightTag call in flight
AddHighlightTag(c) ==
  \/ AddHighlightTagExists(c)
  \/ TagInsert(c)
  \/ TagLookup(c)
  \/ AddHighlightTagLink(c)

RemoveHighlightTag(h, tagId) ==
  /\ Idle
  /\ db' = removeHighlightTag(db, h, tagId)
  /\ Done("removeHighlightTag", "", tagId, OK, Cardinality(db.highlight_tags \ db'.highlight_tags))
  /\ UNCHANGED <<tx, now, app, bulk, modal, calls, sidebar, flights, conn>>

\* ------------------------------------------------------------------------
\* deleteTag: its two awaited DELETE statements
\* ------------------------------------------------------------------------
\* deleteTag(tagId) is called
DeleteTagCall(c, tagId) ==
  /\ flights[c].pc = "idle"
  /\ flights' = [flights EXCEPT ![c] =
                   [op |-> "deleteTag", pc |-> "deleteLinks", h |-> tagId, arg |-> "",
                    local |-> 0, err |-> OK, ctx |-> NoCtx]]
  /\ UNCHANGED <<db, tx, now, app, bulk, modal, last, calls, sidebar, conn>>

\* deleteTag that deletes the tag row only
DeleteTagLinks_Keep(c) ==
  /\ flights[c].op = "deleteTag"
  /\ flights[c].pc = "deleteLinks"
  /\ flights' = [flights EXCEPT ![c].pc = "deleteTag"]
  /\ UNCHANGED <<db, tx, now, app, bulk, modal, last, calls, sidebar, conn>>

\* DELETE FROM highlight_tags WHERE tag_id = ?
DeleteTagLinks(c) ==
  /\ flights[c].op = "deleteTag"
  /\ flights[c].pc = "deleteLinks"
  /\ db' = DeleteLinksOfTags(db, {flights[c].h})
  /\ flights' = [flights EXCEPT ![c].pc = "deleteTag",
                                ![c].local = Cardinality(db.highlight_tags \ db'.highlight_tags)]
  /\ UNCHANGED <<tx, now, app, bulk, modal, last, calls, sidebar, conn>>

\* DELETE FROM tags WHERE id = ?
DeleteTagRow(c) ==
  /\ flights[c].op = "deleteTag"
  /\ flights[c].pc = "deleteTag"
  /\ db' = DeleteTagRows(db, {flights[c].h})
  /\ Return(c)
  /\ Done("deleteTag", "", flights[c].h, OK, flights[c].local)
  /\ UNCHANGED <<tx, now, app, bulk, modal, calls, sidebar, conn>>

\* the statements of a deleteTag call in flight
DeleteTag(c) ==
  \/ DeleteTagLinks(c)
  \/ DeleteTagRow(c)

\* ------------------------------------------------------------------------
\* App.updateHighlight: the SELECT and the UPDATE of databaseService.updateHighlight,
\* then setHighlights
\* ------------------------------------------------------------------------
\* the in-memory highlight with the patch spread over its position and content
mergeHighlight(hl, position, content) ==
  [hl EXCEPT !.position = Spread(@, position), !.content = Spread(@, content)]

\* setHighlights(prev => prev.map(h => h.id === highlightId ? merged : h))
MergeInto(highlights, highlightId, position, content) ==
  [i \in DOMAIN highlights |->
     IF highlights[i].id = highlightId
       THEN mergeHighlight(highlights[i], position, content)
       ELSE highlights[i]]

\* an UPDATE that writes the patch as the whole position instead of merging it
UpdateFromCurrent_Overwrite(d, h, currentHighlight, position, content) ==
  [d EXCEPT !.highlights =
     {IF r.highlight_id = h
        THEN [r EXCEPT !.content_text = IF content.text \notin {UNDEFINED, ABSENT}
                                          THEN content.text ELSE currentHighlight.content_text,
                       !.content_image = IF content.image \notin {UNDEFINED, ABSENT}
                                           THEN content.image ELSE currentHighlight.content_image,
                       !.position_data = JSONstringify(position)]
        ELSE r : r \in @}]

\* UPDATE highlights SET content_text, content_image, position_data WHERE highlight_id = ?
\* with the three values computed from the row that the SELECT returned
UpdateFromCurrent(d, h, currentHighlight, position, content) ==
  [d EXCEPT !.highlights =
     {IF r.highlight_id = h
        THEN [r EXCEPT !.content_text = IF content.text \notin {UNDEFINED, ABSENT}
                                          THEN content.text ELSE currentHighlight.content_text,
                       !.content_image = IF content.image \notin {UNDEFINED, ABSENT}
                                           THEN content.image ELSE currentHighlight.content_image,
                       !.position_data =
                          JSONstringify(Spread(JSONparse(currentHighlight.position_data), position))]
        ELSE r : r \in @}]

\* updateHighlight(highlightId, position, content) is called: with a current document
\* the store call is awaited first, without one the list is merged at once
AppUpdateHighlightCall(c, highlightId, position, content) ==
  /\ flights[c].pc = "idle"
  /\ app.appState = "viewer"
  /\ IF app.currentPdfId # NoId
       THEN /\ flights' = [flights EXCEPT ![c] =
                             [op |-> "updateHighlight", pc |-> "select", h |-> highlightId,
                              arg |-> <<position, content>>, local |-> NULL, err |-> OK,
                              ctx |-> NoCtx]]
            /\ UNCHANGED <<app, last>>
       ELSE /\ app' = [app EXCEPT !.highlights = MergeInto(@, highlightId, position, content)]
            /\ Done("updateHighlight", "", highlightId, OK, 0)
            /\ UNCHANGED flights
  /\ UNCHANGED <<db, tx, now, bulk, modal, calls, sidebar, conn>>

\* a SELECT after which a missing row is written
UpdateHighlightSelect_Upsert(c) ==
  /\ flights[c].op = "updateHighlight"
  /\ flights[c].pc = "select"
  /\ LET current == {r \in db.highlights : r.highlight_id = flights[c].h}
     IN IF current = {}
          THEN /\ flights' = [flights EXCEPT ![c].pc = "missing"]
               /\ db' = [db EXCEPT !.highlights =
                           @ \cup {[highlight_id |-> flights[c].h, pdf_id |-> NoId,
                                    content_text |-> OrNull(flights[c].arg[2].text),
                                    content_image |-> OrNull(flights[c].arg[2].image),
                                    comment_text |-> NULL, comment_emoji |-> NULL,
                                    position_data |-> JSONstringify(flights[c].arg[1]),
                                    page_number |-> flights[c].arg[1]["pageNumber"],
                                    created_at |-> 0]}]
          ELSE /\ flights' = [flights EXCEPT ![c].pc = "update",
                                             ![c].local = CHOOSE r \in current : TRUE]
               /\ UNCHANGED db
  /\ UNCHANGED <<tx, now, app, bulk, modal, last, calls, sidebar, conn>>

\* SELECT * FROM highlights WHERE highlight_id = ? LIMIT 1 executes;
\* if (current.length === 0) return
UpdateHighlightSelect(c) ==
  /\ flights[c].op = "updateHighlight"
  /\ flights[c].pc = "select"
  /\ LET current == {r \in db.highlights : r.highlight_id = flights[c].h}
     IN IF current = {}
          THEN /\ flights' = [flights EXCEPT ![c].pc = "missing"]
               /\ UNCHANGED db
          ELSE /\ flights' = [flights EXCEPT ![c].pc = "update",
                                             ![c].local = CHOOSE r \in current : TRUE]
               /\ UNCHANGED db
  /\ UNCHANGED <<tx, now, app, bulk, modal, last, calls, sidebar, conn>>

\* the UPDATE executes
UpdateHighlightWrite(c) ==
  /\ flights[c].op = "updateHighlight"
  /\ flights[c].pc = "update"
  /\ db' = UpdateFromCurrent(db, flights[c].h, flights[c].local,
                             flights[c].arg[1], flights[c].arg[2])
  /\ flights' = [flights EXCEPT ![c].pc = "written"]
  /\ UNCHANGED <<tx, now, app, bulk, modal, last, calls, sidebar, conn>>

\* the store call has returned and App.updateHighlight resumes: setHighlights merges
\* the patch into the list as it is now
AppUpdateHighlightSet(c) ==
  /\ flights[c].op = "updateHighlight"
  /\ flights[c].pc \in {"missing", "written"}
  /\ app' = [app EXCEPT !.highlights =
               MergeInto(@, flights[c].h, flights[c].arg[1], flights[c].arg[2])]
  /\ Return(c)
  /\ Done("updateHighlight", "", flights[c].h, OK, 0)
  /\ UNCHANGED <<db, tx, now, bulk, modal, calls, sidebar, conn>>

\* the statements of an App.updateHighlight call in flight
AppUpdateHighlight(c) ==
  \/ UpdateHighlightSelect(c)
  \/ UpdateHighlightWrite(c)
  \/ AppUpdateHighlightSet(c)

\* ------------------------------------------------------------------------
\* TagModal
\* ------------------------------------------------------------------------
\* the tags offered as suggestions when the dialog opens (at most 6; all tags here)
getMostUsedTags(d) == {TagOf(r) : r \in d.tags}

\* the run of the effect on [isOpen, highlight.id]: loadCurrentTags() and
\* loadTagSuggestions(), each awaiting its own store call
LoadFrame(h) ==
  [op |-> "loadTags", pc |-> "run", h |-> h, arg |-> "",
   local |-> [cur |-> "select", tags |-> <<>>, sug |-> "select", most |-> {}, live |-> TRUE],
   err |-> OK, ctx |-> NoCtx]

\* the effect has run to its end
LoadEnds(f) == IF f.local.cur = "done" /\ f.local.sug = "done" THEN NoFlight ELSE f

\* Sidebar renders the dialog for a highlight of the in-memory list: handleManageTags
\* of the context menu when no dialog is open, Ctrl+T (the first highlight of the list)
\* at any time. A closed dialog is mounted with fresh state; an open one keeps its
\* state and runs the effect again for another highlight. The effect starts:
\* setIsLoading(true); setError(null)
OpenTagModal(c, h) ==
  /\ app.appState = "viewer"
  /\ flights[c].pc = "idle"
  /\ \E i \in DOMAIN app.highlights : app.highlights[i].id = h /\ (modal.isOpen => i = 1)
  /\ ~(modal.isOpen /\ modal.highlight = h)
  /\ modal' = IF modal.isOpen
                THEN [modal EXCEPT !.highlight = h, !.isLoading = TRUE, !.error = NULL]
                ELSE [NoModal EXCEPT !.isOpen = TRUE, !.highlight = h, !.isLoading = TRUE]
  /\ flights' = [flights EXCEPT ![c] = LoadFrame(h)]
  /\ UNCHANGED <<db, tx, now, app, bulk, last, calls, sidebar, conn>>

\* loadCurrentTags: await databaseService.getHighlightTags(highlight.id) executes
LoadCurrentTagsSelect(c) ==
  /\ flights[c].op = "loadTags"
  /\ flights[c].local.cur = "select"
  /\ flights' = [flights EXCEPT
                   ![c].local.cur = "set",
                   ![c].local.tags =
                      OrderByName({TagOf(r) : r \in getHighlightTags(db, flights[c].h)})]
  /\ UNCHANGED <<db, tx, now, app, bulk, modal, last, calls, sidebar, conn>>

\* loadCurrentTags resumes: setCurrentTags(tags); finally setIsLoading(false)
LoadCurrentTagsSet(c) ==
  /\ flights[c].op = "loadTags"
  /\ flights[c].local.cur = "set"
  /\ modal' = IF flights[c].local.live
                THEN [modal EXCEPT !.currentTags = flights[c].local.tags,
                                   !.isLoading = FALSE]
                ELSE modal
  /\ flights' = [flights EXCEPT ![c] = LoadEnds([flights[c] EXCEPT !.local.cur = "done"])]
  /\ UNCHANGED <<db, tx, now, app, bulk, last, calls, sidebar, conn>>

\* loadTagSuggestions: await databaseService.getMostUsedTags(6) executes
LoadTagSuggestionsSelect(c) ==
  /\ flights[c].op = "loadTags"
  /\ flights[c].local.sug = "select"
  /\ flights' = [flights EXCEPT ![c].local.sug = "set",
                                ![c].local.most = getMostUsedTags(db)]
  /\ UNCHANGED <<db, tx, now, app, bulk, modal, last, calls, sidebar, conn>>

\* loadTagSuggestions resumes: setMostUsedTags(mostUsed)
LoadTagSuggestionsSet(c) ==
  /\ flights[c].op = "loadTags"
  /\ flights[c].local.sug = "set"
  /\ modal' = IF flights[c].local.live
                THEN [modal EXCEPT !.suggestions = flights[c].local.most]
                ELSE modal
  /\ flights' = [flights EXCEPT ![c] = LoadEnds([flights[c] EXCEPT !.local.sug = "done"])]
  /\ UNCHANGED <<db, tx, now, app, bulk, last, calls, sidebar, conn>>

\* the statements of the dialog's load effect
LoadTags(c) ==
  \/ LoadCurrentTagsSelect(c)
  \/ LoadCurrentTagsSet(c)
  \/ LoadTagSuggestionsSelect(c)
  \/ LoadTagSuggestionsSet(c)

\* handleAddTag with a name typed into the input (enabled unless isLoading or
\* isSaving): the name is tested against the selection of this render, then
\* await databaseService.addTag(trimmedName)
handleAddTagCall(c, tagName) ==
  /\ modal.isOpen
  /\ ~modal.isLoading
  /\ ~modal.isSaving
  /\ flights[c].pc = "idle"
  /\ LET trimmedName == trim(tagName)
     IN /\ trimmedName # ""
        /\ ~InSelection(modal.currentTags, trimmedName)
        /\ flights' = [flights EXCEPT ![c] =
                         [op |-> "addTag", pc |-> "insertTag", h |-> NoId,
                          arg |-> trimmedName, local |-> NoId, err |-> OK,
                          ctx |-> [op |-> "handleAddTag", pc |-> "addTag",
                                   h |-> modal.highlight, arg |-> trimmedName,
                                   local |-> [ret |-> NoId, live |-> TRUE],
                                   err |-> OK, ctx |-> NoCtx]]]
  /\ UNCHANGED <<db, tx, now, app, bulk, modal, last, calls, sidebar, conn>>

\* handleAddTag resumes after addTag: setCurrentTags(prev => [...prev, tag]) and
\* setInputValue(''), or setError('Failed to add tag') in the catch block
handleAddTagResume(c) ==
  /\ flights[c].op = "handleAddTag"
  /\ flights[c].pc = "resume"
  /\ modal' = IF ~flights[c].local.live
                THEN modal
                ELSE IF flights[c].err = OK
                  THEN [modal EXCEPT
                          !.currentTags = Append(@, [id |-> flights[c].local.ret,
                                                     name |-> flights[c].arg]),
                          !.inputValue = ""]
                  ELSE [modal EXCEPT !.error = AddError]
  /\ Return(c)
  /\ Done("handleAddTag", flights[c].arg, flights[c].local.ret, flights[c].err, 0)
  /\ UNCHANGED <<db, tx, now, app, bulk, calls, sidebar, conn>>

\* handleAddTag with a Tag object picked from the suggestions: no store call
handleAddTagSuggestion(tag) ==
  /\ modal.isOpen
  /\ tag \in modal.suggestions
  /\ trim(tag.name) # ""
  /\ ~InSelection(modal.currentTags, trim(tag.name))
  /\ modal' = [modal EXCEPT !.currentTags = Append(@, tag), !.inputValue = ""]
  /\ UNCHANGED <<db, tx, now, app, bulk, last, calls, sidebar, flights, conn>>

\* the chip of a tag (rendered unless isLoading) is removed:
\* setCurrentTags(prev => prev.filter(tag => tag.id !== tagToRemove.id))
handleRemoveTag(tagToRemove) ==
  /\ modal.isOpen
  /\ ~modal.isLoading
  /\ tagToRemove \in Elems(modal.currentTags)
  /\ LET kept(tag) == tag.id # tagToRemove.id
     IN modal' = [modal EXCEPT !.currentTags = SelectSeq(@, kept)]
  /\ UNCHANGED <<db, tx, now, app, bulk, last, calls, sidebar, flights, conn>>

\* closing without Save (Escape, backdrop click, the close button): the dialog is
\* unmounted, and what its handlers in flight set later is dropped
CloseTagModal ==
  /\ modal.isOpen
  /\ modal' = NoModal
  /\ flights' = [c \in CallIds |-> Unmounted(flights[c], FALSE)]
  /\ UNCHANGED <<db, tx, now, app, bulk, last, calls, sidebar, conn>>

\* ------------------------------------------------------------------------
\* TagModal.handleSave and Sidebar.handleSaveTags
\* ------------------------------------------------------------------------
\* Save (enabled unless isLoading or isSaving): setIsSaving(true); setError(null);
\* finalTags = [...currentTags]; text in the input field that is not in the selection is
\* added with await addTag first. The handler keeps the props of its render: highlight
\* and onSave, which is handleSaveTags with the tagsCache and currentPdfId of this render
handleSaveCall(c, inputValue) ==
  /\ modal.isOpen
  /\ ~modal.isLoading
  /\ ~modal.isSaving
  /\ flights[c].pc = "idle"
  /\ LET trimmedInput == trim(inputValue)
         frame == [op |-> "handleSave", pc |-> "getHighlightTags", h |-> modal.highlight,
                   arg |-> trimmedInput,
                   local |-> [finalTags |-> modal.currentTags, original |-> <<>>,
                              diffed |-> FALSE, toAdd |-> <<>>, toRemove |-> <<>>,
                              added |-> 0, removed |-> 0,
                              live |-> TRUE, sbLive |-> TRUE,
                              retry |-> modal.error = SaveError,
                              cache |-> sidebar.tagsCache, pdfId |-> app.currentPdfId],
                   err |-> OK, ctx |-> NoCtx]
     IN flights' = [flights EXCEPT ![c] =
                      IF trimmedInput # "" /\ ~InSelection(modal.currentTags, trimmedInput)
                        THEN [op |-> "addTag", pc |-> "insertTag", h |-> NoId,
                              arg |-> trimmedInput, local |-> NoId, err |-> OK,
                              ctx |-> [frame EXCEPT !.pc = "autoAdd"]]
                        ELSE frame]
  /\ modal' = [modal EXCEPT !.isSaving = TRUE, !.error = NULL]
  /\ UNCHANGED <<db, tx, now, app, bulk, last, calls, sidebar, conn>>

\* const originalTags = await databaseService.getHighlightTags(highlight.id) executes,
\* or fails in the store; tagsToAdd and tagsToRemove are computed from its result
handleSaveRead(c, fail) ==
  /\ flights[c].op = "handleSave"
  /\ flights[c].pc = "getHighlightTags"
  /\ LET f == flights[c]
         originalTags == OrderByName({TagOf(r) : r \in getHighlightTags(db, f.h)})
     IN flights' = [flights EXCEPT ![c] =
          IF fail
            THEN [f EXCEPT !.pc = "catch", !.err = ErrStore]
            ELSE SaveNext([f EXCEPT
                             !.local.original = originalTags,
                             !.local.diffed = TRUE,
                             !.local.toAdd = tagsToAdd(f.local.finalTags, originalTags),
                             !.local.toRemove = tagsToRemove(f.local.finalTags, originalTags)])]
  /\ UNCHANGED <<db, tx, now, app, bulk, modal, last, calls, sidebar, conn>>

\* await databaseService.removeHighlightTag(highlight.id, tag.id) for the next tag of
\* tagsToRemove executes, or fails in the store
handleSaveRemove(c, fail) ==
  /\ flights[c].op = "handleSave"
  /\ flights[c].pc = "removing"
  /\ IF fail
       THEN /\ flights' = [flights EXCEPT ![c].pc = "catch", ![c].err = ErrStore]
            /\ UNCHANGED db
       ELSE /\ db' = removeHighlightTag(db, flights[c].h, Head(flights[c].local.toRemove).id)
            /\ flights' = [flights EXCEPT ![c] =
                             SaveNext([@ EXCEPT !.local.toRemove = Tail(@),
                                                !.local.removed = @ + 1])]
  /\ UNCHANGED <<tx, now, app, bulk, modal, last, calls, sidebar, conn>>

\* Sidebar.handleSaveTags as called by onSave: it waits for its 100 ms timer
SaveTagsFrame(frame) ==
  [op |-> "handleSaveTags", pc |-> "timer", h |-> frame.h, arg |-> "",
   local |-> [cache |-> frame.local.cache, pdfId |-> frame.local.pdfId, now |-> 0,
              tags |-> <<>>, sbLive |-> frame.local.sbLive],
   err |-> OK, ctx |-> NoCtx]

\* handleSave resumes after its last store call: onSave(finalTags), which runs
\* handleSaveTags up to its timer, and onClose(), which closes the dialog that the
\* sidebar shows; finally setIsSaving(false)
handleSaveClose(c) ==
  /\ flights[c].op = "handleSave"
  /\ flights[c].pc = "close"
  /\ modal' = IF flights[c].local.sbLive THEN NoModal ELSE modal
  /\ flights' = [o \in CallIds |->
                   IF o = c THEN SaveTagsFrame(flights[c])
                   ELSE IF flights[c].local.sbLive THEN Unmounted(flights[o], FALSE)
                   ELSE flights[o]]
  /\ Done("handleSave", "", flights[c].h, OK,
          flights[c].local.added + flights[c].local.removed)
  /\ UNCHANGED <<db, tx, now, app, bulk, calls, sidebar, conn>>

\* the catch block of handleSave: setError('Failed to save tags'); finally
\* setIsSaving(false); the dialog stays open with its selection
handleSaveCatch(c) ==
  /\ flights[c].op = "handleSave"
  /\ flights[c].pc = "catch"
  /\ modal' = IF flights[c].local.live
                THEN [modal EXCEPT !.error = SaveError, !.isSaving = FALSE]
                ELSE modal
  /\ Return(c)
  /\ Done("handleSave", "", flights[c].h, flights[c].err,
          flights[c].local.added + flights[c].local.removed)
  /\ UNCHANGED <<db, tx, now, app, bulk, calls, sidebar, conn>>

\* ------------------------------------------------------------------------
\* Sidebar: the available-tag list and its cache
\* ------------------------------------------------------------------------
\* Date.now() advances by this many milliseconds with each tick of the clock
MsPerTick == 15000

\* getTagsForPdf(pdfId): the tags linked to a highlight of the document, by name
getTagsForPdf(d, pdfId) ==
  SortedNames({r.name : r \in {q \in d.tags :
     \E l \in d.highlight_tags, hl \in d.highlights :
       l.tag_id = q.id /\ l.highlight_id = hl.highlight_id /\ hl.pdf_id = pdfId}})

\* the tag list the sidebar asks the store for: that of the current document, or all tags
StoreTags(d, pdfId) == IF pdfId # NoId THEN getTagsForPdf(d, pdfId) ELSE getAllTags(d)

\* tagsCache && (now - tagsCache.timestamp) < 30000 && tagsCache.key === cacheKey;
\* the key is the document id, NoId standing for 'all_tags'
CacheHit(cache, pdfId, t) ==
  cache.valid /\ (t - cache.timestamp) * MsPerTick < 30000 /\ cache.key = pdfId

\* a loadAvailableTags run that awaits the store: the function of the render that made
\* the handler `op`, with the tagsCache and currentPdfId of that render, and its Date.now()
LoadAvailableFrame(op, h, cache, pdfId, t, sbLive) ==
  [op |-> op, pc |-> "getTags", h |-> h, arg |-> "",
   local |-> [cache |-> cache, pdfId |-> pdfId, now |-> t, tags |-> <<>>, sbLive |-> sbLive],
   err |-> OK, ctx |-> NoCtx]

\* loadAvailableTags is called by `op` at caller c, on the sidebar sb: it answers from the
\* tagsCache of its render, or awaits the store
LoadAvailableStart(c, op, h, sb, cache, pdfId, sbLive) ==
  IF CacheHit(cache, pdfId, sidebar.clock)
    THEN /\ sidebar' = IF sbLive THEN [sb EXCEPT !.availableTags = cache.tags] ELSE sb
         /\ Return(c)
         /\ Done(op, "", h, OK, 0)
    ELSE /\ sidebar' = sb
         /\ flights' = [flights EXCEPT ![c] =
                          LoadAvailableFrame(op, h, cache, pdfId, sidebar.clock, sbLive)]
         /\ UNCHANGED last

\* await databaseService.getTagsForPdf(currentPdfId) or getAllTags() executes
LoadAvailableRead(c) ==
  /\ flights[c].op \in {"loadAvailableTags", "handleSaveTags", "handleTagsDeleted"}
  /\ flights[c].pc = "getTags"
  /\ flights' = [flights EXCEPT ![c].pc = "setTags",
                                ![c].local.tags = StoreTags(db, flights[c].local.pdfId)]
  /\ UNCHANGED <<db, tx, now, app, bulk, modal, last, calls, sidebar, conn>>

\* loadAvailableTags resumes: setAvailableTags(tags);
\* setTagsCache({ tags, timestamp: now, key: cacheKey })
LoadAvailableSet(c) ==
  /\ flights[c].op \in {"loadAvailableTags", "handleSaveTags", "handleTagsDeleted"}
  /\ flights[c].pc = "setTags"
  /\ sidebar' = IF flights[c].local.sbLive
                  THEN [sidebar EXCEPT
                          !.availableTags = flights[c].local.tags,
                          !.tagsCache = [valid |-> TRUE, tags |-> flights[c].local.tags,
                                         timestamp |-> flights[c].local.now,
                                         key |-> flights[c].local.pdfId]]
                  ELSE sidebar
  /\ Return(c)
  /\ Done(flights[c].op, "", flights[c].h, OK, 0)
  /\ UNCHANGED <<db, tx, now, app, bulk, modal, calls, conn>>

\* the statements of a loadAvailableTags run in flight
LoadAvailable(c) ==
  \/ LoadAvailableRead(c)
  \/ LoadAvailableSet(c)

\* Date.now() advances
SidebarTick ==
  /\ sidebar.clock < MaxClock
  /\ sidebar' = [sidebar EXCEPT !.clock = @ + 1]
  /\ UNCHANGED <<db, tx, now, app, bulk, modal, last, calls, flights, conn>>

\* useEffect on [highlights] and on [currentPdfId]: loadAvailableTags()
SidebarEffect(c) ==
  /\ app.appState = "viewer"
  /\ flights[c].pc = "idle"
  /\ LoadAvailableStart(c, "loadAvailableTags", NoId, sidebar, sidebar.tagsCache,
                        app.currentPdfId, TRUE)
  /\ UNCHANGED <<db, tx, now, app, bulk, modal, calls, conn>>

\* the timer of handleSaveTags fires: setTagsCache(null); await loadAvailableTags()
SaveTagsTimer(c) ==
  /\ flights[c].op = "handleSaveTags"
  /\ flights[c].pc = "timer"
  /\ LoadAvailableStart(c, "handleSaveTags", flights[c].h,
                        IF flights[c].local.sbLive
                          THEN [sidebar EXCEPT !.tagsCache = NoSidebar.tagsCache]
                          ELSE sidebar,
                        flights[c].local.cache, flights[c].local.pdfId,
                        flights[c].local.sbLive)
  /\ UNCHANGED <<db, tx, now, app, bulk, modal, calls, conn>>

\* the statements of a handleSave call in flight, the store not failing, and the timer
\* of the handleSaveTags it calls
handleSave(c) ==
  \/ handleSaveRead(c, FALSE)
  \/ handleSaveRemove(c, FALSE)
  \/ handleSaveClose(c)
  \/ handleSaveCatch(c)
  \/ SaveTagsTimer(c)

\* the statements of a handleSave call in flight, one of them failing in the store
handleSaveFault(c) ==
  \/ handleSaveRead(c, TRUE)
  \/ AddHighlightTagExistsF(c)
  \/ AddHighlightTagLinkF(c)
  \/ handleSaveRemove(c, TRUE)

\* ------------------------------------------------------------------------
\* bulkDeleteTags, statement by statement; `fail` is a store failure of the statement
\* ------------------------------------------------------------------------
\* the calls in flight when bulkDeleteTags returns or throws: the handleConfirmDelete
\* that awaits it is resumed
Woken(err) ==
  [c \in CallIds |->
     IF flights[c].op = "handleConfirmDelete" /\ flights[c].pc = "bulkDeleteTags"
       THEN [flights[c] EXCEPT !.pc = "resume", !.err = err]
       ELSE flights[c]]

\* entry: if (tagIds.length === 0) return; otherwise enter the try block
BulkDeleteTags(tagIds) ==
  /\ Idle
  /\ IF tagIds = {}
       THEN /\ Done("bulkDeleteTags", "", NoId, OK, 0)
            /\ UNCHANGED bulk
       ELSE /\ bulk' = [pc |-> "begin", ids |-> tagIds, err |-> OK, before |-> db]
            /\ UNCHANGED last
  /\ UNCHANGED <<db, tx, now, app, modal, calls, sidebar, flights, conn>>

\* BEGIN TRANSACTION
BulkBegin(fail) ==
  /\ bulk.pc = "begin"
  /\ IF fail
       THEN /\ bulk' = [bulk EXCEPT !.pc = "rollback", !.err = ErrStore]
            /\ UNCHANGED tx
       ELSE /\ bulk' = [bulk EXCEPT !.pc = "deleteLinks"]
            /\ tx' = [active |-> TRUE, snapshot |-> db]
  /\ UNCHANGED <<db, now, app, modal, last, calls, sidebar, flights, conn>>

\* DELETE FROM highlight_tags WHERE tag_id IN (...)
BulkDeleteLinks(fail) ==
  /\ bulk.pc = "deleteLinks"
  /\ IF fail
       THEN /\ bulk' = [bulk EXCEPT !.pc = "rollback", !.err = ErrStore]
            /\ UNCHANGED db
       ELSE /\ bulk' = [bulk EXCEPT !.pc = "deleteTags"]
            /\ db' = DeleteLinksOfTags(db, bulk.ids)
  /\ UNCHANGED <<tx, now, app, modal, last, calls, sidebar, flights, conn>>

\* DELETE FROM tags WHERE id IN (...)
BulkDeleteTagRows(fail) ==
  /\ bulk.pc = "deleteTags"
  /\ IF fail
       THEN /\ bulk' = [bulk EXCEPT !.pc = "rollback", !.err = ErrStore]
            /\ UNCHANGED db
       ELSE /\ bulk' = [bulk EXCEPT !.pc = "commit"]
            /\ db' = DeleteTagRows(db, bulk.ids)
  /\ UNCHANGED <<tx, now, app, modal, last, calls, sidebar, flights, conn>>

\* COMMIT; a failed COMMIT leaves the transaction open
BulkCommit(fail) ==
  /\ bulk.pc = "commit"
  /\ IF fail
       THEN /\ bulk' = [bulk EXCEPT !.pc = "rollback", !.err = ErrStore]
            /\ UNCHANGED <<tx, last, flights>>
       ELSE /\ bulk' = NoBulk
            /\ tx' = NoTx
            /\ flights' = Woken(OK)
            /\ Done("bulkDeleteTags", "", NoId, OK, 0)
  /\ UNCHANGED <<db, now, app, modal, calls, sidebar, conn>>

\* a catch block that rethrows without ROLLBACK
Rollback_None(d, t) == d

\* what the catch block leaves in the store: ROLLBACK restores the snapshot of the
\* open transaction; with no open transaction the statement itself fails
Rollback(d, t) == IF t.active THEN t.snapshot ELSE d

\* number of rows a rollback brings back
Restored(d, t) ==
  Cardinality(t.snapshot.tags \ d.tags) + Cardinality(t.snapshot.highlight_tags \ d.highlight_tags)

\* catch (error) { await ROLLBACK; throw error; }
BulkRollback ==
  /\ bulk.pc = "rollback"
  /\ db' = Rollback(db, tx)
  /\ tx' = NoTx
  /\ bulk' = NoBulk
  /\ flights' = Woken(IF tx.active THEN bulk.err ELSE ErrNoTx)
  /\ Done("bulkDeleteTags", "", NoId, IF tx.active THEN bulk.err ELSE ErrNoTx,
          IF tx.active THEN Restored(db, tx) ELSE 0)
  /\ UNCHANGED <<now, app, modal, calls, sidebar, conn>>

BulkStep ==
  \/ \E fail \in BOOLEAN : BulkBegin(fail)
  \/ \E fail \in BOOLEAN : BulkDeleteLinks(fail)
  \/ \E fail \in BOOLEAN : BulkDeleteTagRows(fail)
  \/ \E fail \in BOOLEAN : BulkCommit(fail)
  \/ BulkRollback

\* the statements of bulkDeleteTags with a store that does not fail
BulkRun ==
  \/ BulkBegin(FALSE)
  \/ BulkDeleteLinks(FALSE)
  \/ BulkDeleteTagRows(FALSE)
  \/ BulkCommit(FALSE)

\* ------------------------------------------------------------------------
\* TagManagementModal.handleConfirmDelete and Sidebar.handleTagsDeleted
\* ------------------------------------------------------------------------
\* the confirm button (disabled while deleting): if (selectedTagIds.size === 0) return;
\* await databaseService.bulkDeleteTags(tagIdsArray). The handler keeps the onTagsDeleted
\* of its render: handleTagsDeleted with the tagsCache and currentPdfId of that render
handleConfirmDeleteCall(c, selectedTagIds) ==
  /\ Idle
  /\ app.appState = "viewer"
  /\ flights[c].pc = "idle"
  /\ selectedTagIds # {}
  /\ bulk' = [pc |-> "begin", ids |-> selectedTagIds, err |-> OK, before |-> db]
  /\ flights' = [flights EXCEPT ![c] =
                   [op |-> "handleConfirmDelete", pc |-> "bulkDeleteTags", h |-> NoId,
                    arg |-> "",
                    local |-> [cache |-> sidebar.tagsCache, pdfId |-> app.currentPdfId,
                               now |-> 0, tags |-> <<>>, sbLive |-> TRUE],
                    err |-> OK, ctx |-> NoCtx]]
  /\ UNCHANGED <<db, tx, now, app, modal, last, calls, sidebar, conn>>

\* handleConfirmDelete resumes: its catch block shows the error of bulkDeleteTags;
\* otherwise onTagsDeleted(), which runs handleTagsDeleted up to the store call of
\* loadAvailableTags, and onClose()
handleConfirmDeleteResume(c) ==
  /\ flights[c].op = "handleConfirmDelete"
  /\ flights[c].pc = "resume"
  /\ IF flights[c].err # OK
       THEN /\ Return(c)
            /\ Done("handleConfirmDelete", "", NoId, flights[c].err, 0)
            /\ UNCHANGED sidebar
       ELSE LoadAvailableStart(c, "handleTagsDeleted", NoId, sidebar, flights[c].local.cache,
                               flights[c].local.pdfId, flights[c].local.sbLive)
  /\ UNCHANGED <<db, tx, now, app, bulk, modal, calls, conn>>

\* the statements of a handleConfirmDelete call in flight with a store that does not
\* fail
handleConfirmDelete(c) ==
  \/ BulkRun
  \/ handleConfirmDeleteResume(c)

\* ------------------------------------------------------------------------
\* Specifications of the repository operations: callers and their calls
\* ------------------------------------------------------------------------
HighlightIds == 1..MaxHighlights
TagIds == 1..MaxTagId
PdfIds == 1..MaxPdfId

\* a call is made at any time, or (awaited) only when nothing is in flight
MayCall(awaited) == awaited => Alone

\* one caller opens /x/a.pdf and adds highlights to it, awaiting each call
OpenAndAdd(highlight, max) ==
  \/ Alone /\ OpenPdfCall(1, "/x/a.pdf", "a.pdf")
  \/ openPdf(1)
  \/ Alone /\ AppAddHighlightCall(1, highlight, max)
  \/ AppAddHighlight(1)

\* linking and unlinking tags by the callers in S, with tag names drawn from `names`
LinkOps(S, names, awaited) ==
  \/ \E c \in S, h \in HighlightIds, n \in names :
       MayCall(awaited) /\ AddHighlightTagCall(c, h, n)
  \/ \E c \in S : AddHighlightTag(c)
  \/ \E h \in HighlightIds, t \in TagIds :
       MayCall(awaited) /\ RemoveHighlightTag(h, t)
  \/ \E c \in S, t \in TagIds : MayCall(awaited) /\ DeleteTagCall(c, t)
  \/ \E c \in S : DeleteTag(c)

\* documents, highlights and their tags: calls are made at any time and their
\* statements interleave; at most one openPdf or addHighlightTag call (slot 1) overlaps
\* with at most one addHighlight or deleteTag call (slot 2), the overlaps of one
\* operation with itself are in SpecSwitch and SpecGate
Next ==
  \/ \E p \in Paths : OpenPdfCall(1, p, FileNameOf(p))
  \/ openPdf(1)
  \/ \E id \in PdfIds : DeletePdf(id)
  \/ AppAddHighlightCall(2, SampleHighlight, MaxHighlights)
  \/ AppAddHighlight(2)
  \/ \E h \in HighlightIds : DeleteHighlight(h)
  \/ \E h \in HighlightIds : AddHighlightTagCall(1, h, "a")
  \/ AddHighlightTag(1)
  \/ \E t \in TagIds : DeleteTagCall(2, t)
  \/ DeleteTag(2)
  \/ showAllPdfs
  \/ backToViewer

Spec == Init /\ [][Next]_vars

\* tag creation and linking on the highlights of one open document, by one caller that
\* awaits each call before the next
NextTag ==
  \/ OpenAndAdd(SampleHighlight, MaxHighlights)
  \/ \E n \in TagNames : Alone /\ AddTagStart(1, n)
  \/ LinkOps({1}, TagNames, TRUE)
  \/ \E ids \in SUBSET TagIds : FlightsIdle /\ BulkDeleteTags(ids)
  \/ BulkStep

SpecTag == Init /\ [][NextTag]_vars

\* C2 (SpecTag): addHighlightTag for a highlight id without a row in highlights fails
\* with the "not found in the database" error and creates no tag row and no link row:
\* no statement of the call changes tags or highlight_tags.
C2_NoDanglingLinkOnAdd ==
  [][\A c \in CallIds :
       (/\ flights[c].op = "addHighlightTag" /\ flights[c].pc # "idle"
        /\ ~highlightExists(db, flights[c].h))
         => /\ db'.tags = db.tags
            /\ db'.highlight_tags = db.highlight_tags
            /\ flights'[c].pc = "idle"
            /\ last'.op = "addHighlightTag" /\ last'.err = ErrNotFound]_vars

\* an unpersisted highlight id was tagged while tags exist, and the call was rejected
C2_Witness ==
  /\ last.op = "addHighlightTag"
  /\ last.err = ErrNotFound
  /\ ~highlightExists(db, last.ret)
  /\ \A r \in db.tags : ~NameEq(r.name, last.arg)

\* C3 (SpecTag): no addTag call raises; a second addTag(n) right after addTag(n)
\* returns the same id, and exactly one tag row then carries that name (as the name
\* column compares names).
C3_IdempotentTagCreation ==
  [][\A c \in CallIds :
       Ends(c, "addTag")
         => /\ last'.err = OK
            /\ (last.op = "addTag" /\ last.arg = flights[c].arg)
                 => /\ last'.ret = last.ret
                    /\ Cardinality({r \in db'.tags : NameEq(r.name, flights[c].arg)}) = 1]_vars

\* addTag(n) was called for a name whose row already existed under exactly that name
C3_Witness ==
  /\ last.op = "addTag"
  /\ last.err = OK
  /\ last.ret < db.seqTags
  /\ \E r \in db.tags : r.id = last.ret /\ r.name = last.arg

\* C4 (SpecTag): for names n, n2 that differ only in case, addTag(n2) right after
\* addTag(n) returns the same id, adds no tag row and does not raise; and
\* addHighlightTag(h, n2) right after a successful addHighlightTag(h, n) leaves the
\* tags of h as they were, with exactly one tag of that name attached.
C4_CaseInsensitiveDedup ==
  [][\A c \in CallIds :
       /\ (/\ Ends(c, "addTag")
           /\ last.op = "addTag"
           /\ last.arg # flights[c].arg /\ NameEq(last.arg, flights[c].arg))
            => /\ last'.err = OK
               /\ last'.ret = last.ret
       /\ (/\ flights[c].op = "addTag" /\ flights[c].pc # "idle"
           /\ last.op = "addTag"
           /\ last.arg # flights[c].arg /\ NameEq(last.arg, flights[c].arg))
            => db'.tags = db.tags
       /\ (/\ flights[c].op = "addHighlightTag" /\ flights[c].pc # "idle"
           /\ last.op = "addHighlightTag" /\ last.err = OK /\ last.ret = flights[c].h
           /\ last.arg # flights[c].arg /\ NameEq(last.arg, flights[c].arg))
            => /\ db'.tags = db.tags
               /\ getHighlightTags(db', flights[c].h) = getHighlightTags(db, flights[c].h)
               /\ flights'[c].pc = "idle"
                    => /\ last'.err = OK
                       /\ Cardinality({r \in getHighlightTags(db', flights[c].h) :
                                         NameEq(r.name, flights[c].arg)}) = 1]_vars

\* a highlight was tagged under a name that differs in case from the stored tag it got
C4_Witness ==
  /\ last.op = "addHighlightTag"
  /\ last.err = OK
  /\ \E r \in getHighlightTags(db, last.ret) : r.name # last.arg /\ NameEq(r.name, last.arg)
  /\ Cardinality(getHighlightTags(db, last.ret)) = 1

\* C5 (SpecTag): a bulkDeleteTags call that fails at BEGIN's successors (deleting links,
\* deleting tags, COMMIT) rejects and leaves tags and highlight_tags as before the
\* call; a call that succeeds leaves no tag row and no link row of the given ids.
C5_BulkDeleteAtomicity ==
  [][/\ (bulk.pc = "rollback" /\ bulk'.pc = "idle")
          => /\ last'.op = "bulkDeleteTags" /\ last'.err # OK
             /\ db'.tags = bulk.before.tags
             /\ db'.highlight_tags = bulk.before.highlight_tags
     /\ (bulk.pc = "commit" /\ bulk'.pc = "idle")
          => /\ last'.op = "bulkDeleteTags" /\ last'.err = OK
             /\ \A r \in db'.tags : r.id \notin bulk.ids
             /\ \A l \in db'.highlight_tags : l.tag_id \notin bulk.ids]_vars

\* a bulk delete failed after it had deleted rows, and the rollback brought them back
C5_Witness ==
  /\ last.op = "bulkDeleteTags"
  /\ last.err = ErrStore
  /\ last.rows >= 2
  /\ db.highlight_tags # {}

\* C6 (Spec): every highlight_tags row names a highlight that has a row in highlights.
C6_LinkHighlightIntegrity ==
  \A l \in db.highlight_tags : highlightExists(db, l.highlight_id)

\* C7 (Spec): deletePdf(d) removes the document row, every highlight row of d and
\* every link of those highlights.
C7_DeletePdfRemovesDependents ==
  [][\A id \in PdfIds :
       DeletePdf(id)
         => /\ \A r \in db'.pdfs : r.id # id
            /\ \A r \in db'.highlights : r.pdf_id # id
            /\ \A r \in db.highlights :
                 r.pdf_id = id => \A l \in db'.highlight_tags : l.highlight_id # r.highlight_id]_vars

\* C8 (SpecTag): every highlight_tags row names a tag that has a row in tags, and a
\* completed deleteTag or bulkDeleteTags leaves no row and no link of the deleted ids.
C8_LinkTagIntegrity ==
  [][/\ \A l \in db'.highlight_tags : l.tag_id \in TagIdsOf(db'.tags)
     /\ \A c \in CallIds :
          Ends(c, "deleteTag")
            => /\ flights[c].h \notin TagIdsOf(db'.tags)
               /\ \A l \in db'.highlight_tags : l.tag_id # flights[c].h
     /\ (bulk.pc = "commit" /\ bulk'.pc = "idle")
          => /\ \A l \in db'.highlight_tags : l.tag_id \notin bulk.ids
             /\ TagIdsOf(db'.tags) \cap bulk.ids = {}]_vars

\* a tag that was linked to highlights was deleted while other links remain
C8_Witness ==
  /\ last.op = "deleteTag"
  /\ last.rows > 0
  /\ db.highlight_tags # {}

\* document registration with the clock running
NextReg ==
  \/ Tick
  \/ \E p \in Paths, n \in PdfNames : Alone /\ OpenPdfCall(1, p, n)
  \/ openPdf(1)
  \/ \E id \in PdfIds : FlightsIdle /\ DeletePdf(id)

SpecReg == Init /\ [][NextReg]_vars

\* creating highlights and patching them
NextMerge ==
  \/ OpenAndAdd(SampleAreaHighlight, MaxHighlights)
  \/ \E h \in HighlightIds, pc \in Patches : Alone /\ AppUpdateHighlightCall(1, h, pc[1], pc[2])
  \/ AppUpdateHighlight(1)

SpecMerge == Init /\ [][NextMerge]_vars

\* editing the tags of a highlight in the tag dialog, the statements of the handlers
\* interleaved: caller 1 has Save, caller 2 the dialog's load effect, and a name is
\* typed at either, so that two names can be on their way at once; the dialog is
\* closed and Save is pressed at any moment
NextModal ==
  \/ OpenAndAdd(SampleHighlight, MaxHighlights)
  \/ \E h \in HighlightIds : Alone /\ OpenTagModal(2, h)
  \/ LoadTags(2)
  \/ \E c \in {1, 2}, s \in {" a", "A"} : handleAddTagCall(c, s)
  \/ AddTag(2)
  \/ \E c \in {1, 2} : handleAddTagResume(c)
  \/ \E tag \in modal.suggestions : Alone /\ handleAddTagSuggestion(tag)
  \/ \E tag \in Elems(modal.currentTags) : Alone /\ handleRemoveTag(tag)
  \/ \E s \in {"", "A"} : handleSaveCall(1, s)
  \/ AddHighlightTag(1)
  \/ handleSave(1)
  \/ \E c \in {1, 2} : LoadAvailable(c)
  \/ CloseTagModal

SpecModal == Init /\ [][NextModal]_vars

\* the row of a persisted highlight
RowOf(d, h) == CHOOSE r \in d.highlights : r.highlight_id = h

\* every tag of the selection has its row (same id, same name up to case)
TagsStillStored(d, tags) ==
  \A tag \in tags : \E r \in d.tags : r.id = tag.id /\ NameEq(r.name, tag.name)

\* the last store call of the handleSave at caller c returns in this step
SaveCompletes(c) ==
  /\ flights'[c].op = "handleSave"
  /\ flights'[c].pc = "close"
  /\ ~(flights[c].op = "handleSave" /\ flights[c].pc = "close")

\* C1 (SpecRetry), as stated: whenever the store calls of handleSave have completed
\* without error for a persisted highlight, the tag ids linked to it are exactly the
\* ids of the desired set.
C1_ReconciliationConvergence ==
  [][(SaveCompletes(1) /\ highlightExists(db', flights'[1].h))
       => TagIdsOf(getHighlightTags(db', flights'[1].h))
            = TagIdsOf(Elems(flights'[1].local.finalTags))]_vars

\* C1 (SpecRetry), amended: the same, for desired sets all of whose tags have their
\* row in tags from the start of the reconciliation to its end (ids are not used
\* again, so a row that is there at the end was there throughout).
C1_ConvergenceForStoredTags ==
  [][(/\ SaveCompletes(1)
      /\ highlightExists(db', flights'[1].h)
      /\ TagsStillStored(db', Elems(flights'[1].local.finalTags)))
       => TagIdsOf(getHighlightTags(db', flights'[1].h))
            = TagIdsOf(Elems(flights'[1].local.finalTags))]_vars

\* a save that both added and removed links completed, and the highlight has tags
C1_Witness ==
  /\ last.op = "handleSave"
  /\ last.err = OK
  /\ last.rows >= 2
  /\ highlightExists(db, last.ret)
  /\ getHighlightTags(db, last.ret) # {}

\* C9 (SpecReg): registering a path leaves exactly one row for it and returns that
\* row's id; when the path was already registered the id is the existing one (so the
\* same as the previous registration's) and only last_opened of that row changes.
C9_PathUniqueOnRegistration ==
  [][\A c \in CallIds :
       /\ Ends(c, "openPdf")
            => /\ last'.err = OK
               /\ Cardinality(getPdfByPath(db', flights[c].arg)) = 1
               /\ \A r \in getPdfByPath(db', flights[c].arg) : r.id = last'.ret
               /\ (last.op = "openPdf"
                     /\ \E r \in getPdfByPath(db', flights[c].arg) : r.id = last.ret)
                    => last'.ret = last.ret
       /\ (flights[c].pc = "updatePdfLastOpened" /\ flights'[c].pc = "setItem")
            => /\ \A r \in getPdfByPath(db, flights[c].arg) : r.id = flights'[c].h
               /\ Cardinality(db'.pdfs) = Cardinality(db.pdfs)
               /\ \A r \in db.pdfs :
                    \E r2 \in db'.pdfs :
                      /\ r2.id = r.id /\ r2.name = r.name /\ r2.path = r.path
                      /\ r2.date_added = r.date_added
                      /\ r.path # flights[c].arg => r2 = r
               /\ db'.highlights = db.highlights
               /\ db'.tags = db.tags
               /\ db'.highlight_tags = db.highlight_tags]_vars

\* a path was registered again, later and under another file name, next to another
\* document
C9_Witness ==
  /\ last.op = "openPdf"
  /\ Cardinality(db.pdfs) = 2
  /\ \E r \in db.pdfs :
       /\ r.id = last.ret
       /\ r.last_opened > r.date_added
       /\ r.name # FileNameOf(r.path)
  /\ \E r \in db.pdfs : r.id # last.ret /\ r.last_opened < now

\* the value a patch leaves in the serialized position: undefined members are dropped
Patched(old, new) == IF new = ABSENT THEN old ELSE IF new = UNDEFINED THEN ABSENT ELSE new

\* C10 (SpecMerge): in every updateHighlight(h, P, C) call on a persisted highlight, made
\* by a caller that awaits each call, the UPDATE leaves every position field named in P
\* and every content field supplied in C at the patch value; all other position and
\* content fields, the comment, the owning document and the creation time are
\* unchanged, and so is every other row and table; the SELECT changes nothing. When
\* the call returns, the in-memory highlight is merged the same way and the other
\* highlights of the list are unchanged.
C10_MergePreservesUntouched ==
  [][/\ (flights[1].op = "updateHighlight" /\ flights[1].pc = "select") => db' = db
     /\ (flights[1].op = "updateHighlight" /\ flights[1].pc = "update")
          => LET P == flights[1].arg[1]
                 C == flights[1].arg[2]
                 r == RowOf(db, flights[1].h)
                 new == RowOf(db', flights[1].h)
                 pos == JSONparse(new.position_data)
                 old == JSONparse(r.position_data)
             IN /\ highlightExists(db, flights[1].h)
                /\ highlightExists(db', flights[1].h)
                /\ \A k \in PosKeys : pos[k] = Patched(old[k], P[k])
                /\ new.content_text
                     = IF C.text \in {ABSENT, UNDEFINED} THEN r.content_text ELSE C.text
                /\ new.content_image
                     = IF C.image \in {ABSENT, UNDEFINED} THEN r.content_image ELSE C.image
                /\ new.comment_text = r.comment_text
                /\ new.comment_emoji = r.comment_emoji
                /\ new.pdf_id = r.pdf_id
                /\ new.created_at = r.created_at
                /\ db'.highlights \ {new} = db.highlights \ {r}
                /\ db'.pdfs = db.pdfs /\ db'.tags = db.tags
                /\ db'.highlight_tags = db.highlight_tags
     /\ (flights[1].op = "updateHighlight" /\ flights[1].pc \in {"missing", "written"})
          => /\ db' = db
             /\ DOMAIN app'.highlights = DOMAIN app.highlights
             /\ \A i \in DOMAIN app.highlights :
                  LET hl == app.highlights[i]
                      m == app'.highlights[i]
                      P == flights[1].arg[1]
                      C == flights[1].arg[2]
                  IN IF hl.id # flights[1].h
                       THEN m = hl
                       ELSE /\ \A k \in PosKeys :
                                 m.position[k] = IF P[k] = ABSENT THEN hl.position[k] ELSE P[k]
                            /\ m.content.text = IF C.text = ABSENT THEN hl.content.text ELSE C.text
                            /\ m.content.image = IF C.image = ABSENT THEN hl.content.image
                                                                     ELSE C.image
                            /\ m.comment = hl.comment
                            /\ m.id = hl.id]_vars

\* a patch of boundingRect and image reached the row; its pageNumber is the original one
C10_Witness ==
  /\ last.op = "updateHighlight"
  /\ highlightExists(db, last.ret)
  /\ RowOf(db, last.ret).position_data["boundingRect"] = "R2"
  /\ RowOf(db, last.ret).position_data["pageNumber"] = "2"
  /\ RowOf(db, last.ret).content_image = "img2"
  /\ RowOf(db, last.ret).page_number = "2"

\* C11 (SpecMerge): while an updateHighlight(id, P, C) call is in flight for an id that
\* has no row in highlights, no step of the call changes a table of the store (no row
\* is created), and the call returns without an error.
C11_UpdateMissingIsNoOp ==
  [][(flights[1].op = "updateHighlight" /\ ~highlightExists(db, flights[1].h))
       => /\ db' = db
          /\ flights'[1].pc = "idle" => (last'.op = "updateHighlight" /\ last'.err = OK)]_vars

\* with a document open, a patch was sent for a highlight that has no row, and the
\* store holds no highlight
C11_Witness ==
  /\ last.op = "updateHighlight"
  /\ last.err = OK
  /\ app.currentPdfId # NoId
  /\ db.pdfs # {}
  /\ ~highlightExists(db, last.ret)

\* the links of highlight h to tags named n (up to case)
LinksByName(d, h, n) ==
  {l \in d.highlight_tags :
     l.highlight_id = h /\ \E r \in d.tags : r.id = l.tag_id /\ NameEq(r.name, n)}

\* C12 (SpecTag): addHighlightTag(h, n) on a persisted highlight that is already linked
\* to tag n succeeds and none of its statements changes the store (so repeated calls
\* leave the state of one call); after every successful call there is exactly one link
\* row for the pair.
C12_IdempotentLinkCreation ==
  [][\A c \in CallIds :
       /\ (/\ flights[c].op = "addHighlightTag" /\ flights[c].pc # "idle"
           /\ highlightExists(db, flights[c].h)
           /\ LinksByName(db, flights[c].h, flights[c].arg) # {})
            => /\ db' = db
               /\ flights'[c].pc = "idle" => last'.err = OK
       /\ (Ends(c, "addHighlightTag") /\ last'.err = OK)
            => Cardinality(LinksByName(db', flights[c].h, flights[c].arg)) = 1]_vars

\* a call for a pair that was already linked succeeded without inserting a row
C12_Witness ==
  /\ last.op = "addHighlightTag"
  /\ last.err = OK
  /\ last.rows = 0
  /\ Cardinality(LinksByName(db, last.ret, last.arg)) = 1

\* C13 (SpecTag): removeHighlightTag(h, t) resolves whether or not the link exists;
\* afterwards the link (h, t) is absent, every other link row is as before, and the
\* tags (tag t included), the highlights and the documents are unchanged.
C13_RemoveLinkFrame ==
  [][\A h \in HighlightIds, t \in TagIds :
       (last'.op = "removeHighlightTag" /\ RemoveHighlightTag(h, t))
         => /\ last'.err = OK
            /\ db'.highlight_tags = db.highlight_tags \ {[highlight_id |-> h, tag_id |-> t]}
            /\ db'.tags = db.tags
            /\ db'.highlights = db.highlights
            /\ db'.pdfs = db.pdfs]_vars

\* a link was removed; its tag is still stored and another link of the highlight is left
C13_Witness ==
  /\ last.op = "removeHighlightTag"
  /\ last.rows = 1
  /\ \E r \in db.tags : r.id = last.ret
  /\ \E l \in db.highlight_tags : l.tag_id # last.ret

\* ------------------------------------------------------------------------
\* addTag calls in flight at the same time: each awaits its INSERT and, after a
\* constraint error, its lookup; the statements of different calls interleave
\* ------------------------------------------------------------------------
\* a caller issues addTag(name); err keeps the error the call caught, if any
AddTagCall(c, name) ==
  /\ calls[c].pc \in {"idle", "resolved", "rejected"}
  /\ calls' = [calls EXCEPT ![c] = [pc |-> "insert", name |-> name, err |-> OK, ret |-> NoId]]
  /\ UNCHANGED <<db, tx, now, app, bulk, modal, last, sidebar, flights, conn>>

\* INSERT INTO tags executes: the call resolves with lastInsertId, or enters the catch
\* block with the error
AddTagInsert(c) ==
  /\ calls[c].pc = "insert"
  /\ LET ins == InsertTag(db, calls[c].name, now)
     IN /\ ins.db.seqTags <= MaxTagId
        /\ db' = ins.db
        /\ calls' = [calls EXCEPT ![c] =
                       IF ins.err = OK
                         THEN [@ EXCEPT !.pc = "resolved", !.ret = ins.lastInsertId]
                         ELSE [@ EXCEPT !.pc = "catch", !.err = ins.err]]
  /\ UNCHANGED <<tx, now, app, bulk, modal, last, sidebar, flights, conn>>

\* the lookup of the catch block executes
AddTagLookup(c) ==
  /\ calls[c].pc = "catch"
  /\ LET res == addTagCatch(db, calls[c].name, calls[c].err)
     IN calls' = [calls EXCEPT ![c] = [@ EXCEPT !.pc = res.pc, !.ret = res.ret]]
  /\ UNCHANGED <<db, tx, now, app, bulk, modal, last, sidebar, flights, conn>>

NextRace ==
  \/ \E c \in CallIds, n \in TagNames : AddTagCall(c, n)
  \/ \E c \in CallIds : AddTagInsert(c)
  \/ \E c \in CallIds : AddTagLookup(c)

SpecRace == Init /\ [][NextRace]_vars

\* C14 (SpecRace): under every interleaving of the statements of in-flight addTag
\* calls, no call rejects, the tags table never holds two rows of one name, and every
\* resolved call returned the id of the row that carries its name; so calls with the
\* same name return the same id.
C14_ConcurrentTagCreation ==
  /\ \A c \in CallIds : calls[c].pc # "rejected"
  /\ \A r1, r2 \in db.tags : r1.name = r2.name => r1 = r2
  /\ \A c \in CallIds :
       calls[c].pc = "resolved"
         => /\ Cardinality({r \in db.tags : r.name = calls[c].name}) <= 1
            /\ \E r \in db.tags : r.id = calls[c].ret /\ NameEq(r.name, calls[c].name)
  /\ \A c1, c2 \in CallIds :
       (calls[c1].pc = "resolved" /\ calls[c2].pc = "resolved"
          /\ calls[c1].name = calls[c2].name)
         => calls[c1].ret = calls[c2].ret

\* two calls with the same name were in flight together and both resolved, one of them
\* through its catch block
C14_Witness ==
  \E c1, c2 \in CallIds :
    /\ c1 # c2
    /\ calls[c1].name = calls[c2].name
    /\ calls[c1].pc = "resolved" /\ calls[c1].err = OK
    /\ calls[c2].pc = "resolved" /\ calls[c2].err = ErrUnique
    /\ calls[c1].ret = calls[c2].ret
    /\ Cardinality({r \in db.tags : r.name = calls[c1].name}) = 1

\* ------------------------------------------------------------------------
\* addHighlightTag with one statement failing in the store
\* ------------------------------------------------------------------------
\* addHighlightTag calls of a caller that awaits each call, any statement of which
\* may fail in the store
NextFault ==
  \/ OpenAndAdd(SampleHighlight, MaxHighlights)
  \/ \E h \in HighlightIds, t \in TagIds : Alone /\ RemoveHighlightTag(h, t)
  \/ \E h \in HighlightIds, n \in TagNames : Alone /\ AddHighlightTagCall(1, h, n)
  \/ AddHighlightTag(1)
  \/ AddHighlightTagFault(1)

SpecFault == Init /\ [][NextFault]_vars

\* the call of addHighlightTag at caller c rejects in this step
Rejects(c) ==
  /\ flights'[c].pc = "idle"
  /\ last'.op = "addHighlightTag"
  /\ last'.err # OK

\* C15 (SpecFault): whenever the store fails a statement of addHighlightTag, the call
\* rejects, and a failure of the existence check of a stored highlight rejects with
\* the store failure, not with 'highlight not found'.
C15_ErrorPropagation ==
  [][/\ AddHighlightTagFault(1) => Rejects(1)
     /\ (AddHighlightTagExistsF(1) /\ highlightExists(db, flights[1].h))
          => last'.err = ErrStore]_vars

\* ------------------------------------------------------------------------
\* handleSave with store calls failing
\* ------------------------------------------------------------------------
\* editing the tags of the first highlight made while the store calls of a save can
\* fail; after a failed save the user leaves the selection as it is and presses Save
\* again, or closes; tags are deleted in the tag management dialog between the saves
NextRetry ==
  \/ OpenAndAdd(SampleHighlight, MaxHighlights)
  \/ \E h \in {1} : Alone /\ OpenTagModal(1, h)
  \/ LoadTags(1)
  \/ \E s \in {"A", "b"} : Alone /\ modal.error # SaveError /\ handleAddTagCall(1, s)
  \/ handleAddTagResume(1)
  \/ \E tag \in Elems(modal.currentTags) :
       Alone /\ modal.error # SaveError /\ handleRemoveTag(tag)
  \/ Alone /\ handleSaveCall(1, "")
  \/ AddHighlightTag(1)
  \/ handleSave(1)
  \/ handleSaveFault(1)
  \/ LoadAvailable(1)
  \/ \E id \in TagIdsOf(db.tags) : Alone /\ handleConfirmDeleteCall(1, {id})
  \/ handleConfirmDelete(1)

SpecRetry == Init /\ [][NextRetry]_vars

\* the tag ids linked to h, with or without a row in tags
LinkedIds(d, h) == {l.tag_id : l \in {x \in d.highlight_tags : x.highlight_id = h}}

\* the link set of h is between O \cap D and O \cup D, as sets of tag ids
Between(S, O, D) == (O \cap D) \subseteq S /\ S \subseteq (O \cup D)

\* the save at caller c has failed after its diff and enters its catch block
FailedPartway(c) ==
  /\ flights[c].op = "handleSave"
  /\ flights[c].pc = "catch"
  /\ flights[c].local.diffed

\* the frame at caller c is a save of the selection that a failed save left
RetryCompletes(c) ==
  /\ SaveCompletes(c)
  /\ flights'[c].local.retry

\* C16 (SpecRetry), as stated: when a save of the selection D fails partway, the tag
\* ids linked to h lie between O \cap D and O \cup D, and when the store calls of the
\* repetition of the save have completed without error, exactly the ids of D are linked.
C16_RetrySafePartialReconciliation ==
  [][/\ FailedPartway(1)
          => Between(LinkedIds(db, flights[1].h),
                     TagIdsOf(Elems(flights[1].local.original)),
                     TagIdsOf(Elems(flights[1].local.finalTags)))
     /\ RetryCompletes(1)
          => LinkedIds(db', flights'[1].h) = TagIdsOf(Elems(flights'[1].local.finalTags))]_vars

\* C16 (SpecRetry), amended: the same, for selections all of whose tags have their row
\* in tags during the failing save, and during its repetition.
C16_RetrySafeForStoredTags ==
  [][/\ (FailedPartway(1) /\ TagsStillStored(db, Elems(flights[1].local.finalTags)))
          => Between(LinkedIds(db, flights[1].h),
                     TagIdsOf(Elems(flights[1].local.original)),
                     TagIdsOf(Elems(flights[1].local.finalTags)))
     /\ (RetryCompletes(1) /\ TagsStillStored(db', Elems(flights'[1].local.finalTags)))
          => LinkedIds(db', flights'[1].h) = TagIdsOf(Elems(flights'[1].local.finalTags))]_vars

\* a save failed after it had changed a link; the dialog is still open and the links
\* of the highlight are not yet the selection
C16_Witness ==
  /\ last.op = "handleSave"
  /\ last.err = ErrStore
  /\ last.rows >= 1
  /\ modal.isOpen
  /\ modal.error = SaveError
  /\ highlightExists(db, modal.highlight)
  /\ TagsStillStored(db, Elems(modal.currentTags))
  /\ TagIdsOf(getHighlightTags(db, modal.highlight)) # TagIdsOf(Elems(modal.currentTags))

\* ------------------------------------------------------------------------
\* Creating highlights in several documents and loading them
\* ------------------------------------------------------------------------
\* a highlight whose text is the empty string
EmptyTextHighlight ==
  [content |-> [text |-> "", image |-> "img1"],
   comment |-> [text |-> "note", emoji |-> "e"],
   position |-> [pageNumber |-> "1", boundingRect |-> "R1", rects |-> UNDEFINED]]

NewHighlights == {SampleHighlight, SampleAreaHighlight, EmptyTextHighlight}

NextLoad ==
  \/ \E p \in Paths : Alone /\ OpenPdfCall(1, p, FileNameOf(p))
  \/ openPdf(1)
  \/ \E hl \in NewHighlights : Alone /\ AppAddHighlightCall(1, hl, MaxLoaded)
  \/ AppAddHighlight(1)

SpecLoad == Init /\ [][NextLoad]_vars

\* reading a member that is missing gives undefined
Read(x) == IF x = ABSENT THEN UNDEFINED ELSE x

\* the same members with the same values
SamePosition(p, q) == \A k \in PosKeys : Read(p[k]) = Read(q[k])
SameContent(c, e) == Read(c.text) = Read(e.text) /\ Read(c.image) = Read(e.image)

\* the content with an empty string read as a missing member
Normalized(c) ==
  [text |-> IF c.text = "" THEN UNDEFINED ELSE c.text,
   image |-> IF c.image = "" THEN UNDEFINED ELSE c.image]

\* C17 (SpecLoad), as stated: after addHighlight accepted x, every result of
\* getHighlightsForPdf for the document holds a highlight with the id of x, the
\* position of x, the content of x and the comment of x.
C17_PersistenceRoundTrip ==
  (last.op = "addHighlight" /\ last.err = OK /\ app.currentPdfId # NoId)
    => LET x == app.highlights[1]
       IN \A loaded \in getHighlightsForPdf(db, app.currentPdfId) :
            \E i \in DOMAIN loaded :
              /\ loaded[i].id = x.id
              /\ SamePosition(loaded[i].position, x.position)
              /\ SameContent(loaded[i].content, x.content)
              /\ loaded[i].comment = x.comment

\* C17 (SpecLoad), amended: the same, with a content text or image that is the empty
\* string returned as undefined.
C17_RoundTripUpToEmptyContent ==
  (last.op = "addHighlight" /\ last.err = OK /\ app.currentPdfId # NoId)
    => LET x == app.highlights[1]
       IN \A loaded \in getHighlightsForPdf(db, app.currentPdfId) :
            \E i \in DOMAIN loaded :
              /\ loaded[i].id = x.id
              /\ SamePosition(loaded[i].position, x.position)
              /\ SameContent(loaded[i].content, Normalized(x.content))
              /\ loaded[i].comment = x.comment

\* an area highlight with an empty comment text was added next to another highlight of
\* the open document
C17_Witness ==
  /\ last.op = "addHighlight"
  /\ last.err = OK
  /\ app.currentPdfId # NoId
  /\ app.highlights[1].comment.text = ""
  /\ app.highlights[1].content.image = "img1"
  /\ highlightExists(db, app.highlights[1].id)
  /\ Cardinality({r \in db.highlights : r.pdf_id = app.currentPdfId}) = 2

\* creating highlights and loading them while the store clock runs
NextOrder ==
  \/ Tick
  \/ \E p \in Paths : Alone /\ OpenPdfCall(1, p, FileNameOf(p))
  \/ openPdf(1)
  \/ Alone /\ AppAddHighlightCall(1, SampleHighlight, MaxLoaded)
  \/ AppAddHighlight(1)

SpecOrder == Init /\ [][NextOrder]_vars

\* C18 (SpecOrder): every result of getHighlightsForPdf(doc) holds exactly the
\* highlights whose owning document is doc, each once, and a highlight added later
\* (ids are handed out in the order of the addHighlight calls) precedes every
\* highlight added before it.
C18_LoadNewestFirst ==
  \A doc \in PdfIds :
    \A loaded \in getHighlightsForPdf(db, doc) :
      /\ {loaded[i].id : i \in DOMAIN loaded}
           = {r.highlight_id : r \in {q \in db.highlights : q.pdf_id = doc}}
      /\ Len(loaded) = Cardinality({q \in db.highlights : q.pdf_id = doc})
      /\ \A i, j \in DOMAIN loaded : i < j => loaded[i].id > loaded[j].id

\* ------------------------------------------------------------------------
\* Tag usage statistics
\* ------------------------------------------------------------------------
\* COUNT(ht.highlight_id) of the LEFT JOIN highlight_tags ht ON t.id = ht.tag_id
UsageCount(d, tagId) == Cardinality({l \in d.highlight_tags : l.tag_id = tagId})

\* ORDER BY count DESC, t.name ASC
UsageBefore(x, y) ==
  \/ x.count > y.count
  \/ x.count = y.count /\ NameRank(x.tag.name) < NameRank(y.tag.name)

\* getTagUsageStats(): one entry per row of tags, with its tag and its count; the
\* statement has no LIMIT and the method takes no argument
getTagUsageStats(d) ==
  LET rows == {[tag |-> [id |-> r.id, name |-> r.name, created_at |-> r.created_at],
                count |-> UsageCount(d, r.id)] : r \in d.tags}
      n == Cardinality(rows)
  IN CHOOSE s \in [1..n -> rows] :
       /\ \A i, j \in 1..n : i # j => s[i] # s[j]
       /\ \A i, j \in 1..n : i < j => UsageBefore(s[i], s[j])

\* the limits asked of the ranking
Limits == 1..MaxTagId

\* C19 (SpecTag): the most-used ranking asked with a limit returns at most limit entries,
\* sorted by link count descending and by name ascending among equal counts, and the
\* count of each entry is the number of highlight_tags rows that reference its tag.
C19_MostUsedTags ==
  \A limit \in Limits :
    LET r == getTagUsageStats(db)
    IN /\ Len(r) <= limit
       /\ \A i, j \in DOMAIN r : i < j => UsageBefore(r[i], r[j])
       /\ \A i \in DOMAIN r :
            r[i].count = Cardinality({l \in db.highlight_tags : l.tag_id = r[i].tag.id})

\* ------------------------------------------------------------------------
\* Tag suggestions
\* ------------------------------------------------------------------------
MaxQueryLen == 2

\* the characters typed into the autocomplete input
QueryChars == {"a", "A", "b", "_", "%"}

\* the query strings, as sequences of characters
Queries == UNION {[1..n -> QueryChars] : n \in 0..MaxQueryLen}

\* the characters of a tag name
Chars(name) == <<name>>

\* the LIKE operator of the store on (pattern, string): % matches any run of characters,
\* _ matches one character, any other character matches itself without regard to case
RECURSIVE Like(_, _)
Like(p, str) ==
  IF p = <<>> THEN str = <<>>
  ELSE IF Head(p) = "%"
    THEN \E k \in 0..Len(str) : Like(Tail(p), SubSeq(str, k + 1, Len(str)))
  ELSE IF Head(p) = "_"
    THEN str # <<>> /\ Like(Tail(p), Tail(str))
  ELSE /\ str # <<>>
       /\ toLowerCase(Head(p)) = toLowerCase(Head(str))
       /\ Like(Tail(p), Tail(str))

\* LIMIT ? / Array.prototype.slice(0, n)
Take(s, n) == SubSeq(s, 1, IF Len(s) < n THEN Len(s) ELSE n)

\* getTagSuggestions(query, limit):
\* SELECT name FROM tags WHERE name LIKE '%' || query || '%' ORDER BY name ASC LIMIT ?
getTagSuggestions(d, query, limit) ==
  Take(SortedNames({r.name : r \in {q \in d.tags :
                      Like(<<"%">> \o query \o <<"%">>, Chars(q.name))}}), limit)

\* the body of debouncedFetchSuggestions: the suggestions shown for a query, given the
\* tags of the dialog's selection
fetchSuggestions(d, query, existingTags) ==
  IF Len(query) = 0
    THEN LET available(n) == ~ \E existing \in existingTags : existing.name = n
         IN Take(SelectSeq(getAllTags(d), available), 8)
    ELSE LET notSelected(n) ==
               ~ \E tag \in existingTags : toLowerCase(tag.name) = toLowerCase(n)
         IN SelectSeq(getTagSuggestions(d, query, 10), notSelected)

\* substring match of the specification: query occurs in str, case ignored
Contains(str, query) ==
  \E i \in 0..(Len(str) - Len(query)) :
    \A k \in 1..Len(query) : toLowerCase(str[i + k]) = toLowerCase(query[k])

\* C20 (SpecModal): tagSuggestions(query, limit) is, in ascending name order and cut to
\* limit, exactly the names of the tags that contain query as a substring when case is
\* ignored; for the empty query the autocomplete of the open dialog shows at most 8
\* names, none of them the name of a tag the dialog already holds for the highlight
\* being edited.
C20_TagSuggestions ==
  /\ \A query \in Queries, limit \in Limits :
       getTagSuggestions(db, query, limit)
         = Take(SortedNames({r.name : r \in {q \in db.tags :
                               Contains(Chars(q.name), query)}}), limit)
  /\ modal.isOpen =>
       LET shown == fetchSuggestions(db, <<>>, Elems(modal.currentTags))
       IN /\ Len(shown) <= 8
          /\ \A i \in DOMAIN shown :
               ~ \E tag \in Elems(modal.currentTags), r \in db.tags :
                   r.id = tag.id /\ r.name = shown[i]

\* ------------------------------------------------------------------------
\* Other operations while bulkDeleteTags is between its statements
\* ------------------------------------------------------------------------
\* addTag calls on the same connection, their statements interleaved with those of
\* bulkDeleteTags
NextTx ==
  \/ \E c \in CallIds, n \in TagNames : AddTagStart(c, n)
  \/ \E c \in CallIds : AddTag(c)
  \/ \E ids \in SUBSET TagIds : BulkDeleteTags(ids)
  \/ BulkStep

SpecTx == Init /\ [][NextTx]_vars

\* C21 (SpecTx): the ROLLBACK of bulkDeleteTags undoes only bulkDeleteTags' own
\* statements: every row of tags and of highlight_tags that is in the store when the
\* rollback runs, among them the rows written by other operations that completed
\* since BEGIN, is still in the store after it.
C21_BulkDeleteIsolation ==
  [][BulkRollback => /\ db.tags \subseteq db'.tags
                     /\ db.highlight_tags \subseteq db'.highlight_tags]_vars

\* ------------------------------------------------------------------------
\* The save applies the difference only
\* ------------------------------------------------------------------------
\* editing the tags of highlight 1 in the dialog while highlight 2 of the same
\* document holds a link of its own, by a user who waits for each handler
NextDelta ==
  \/ OpenAndAdd(SampleHighlight, MaxLoaded)
  \/ Alone /\ AddHighlightTagCall(1, 2, "b")
  \/ Alone /\ OpenTagModal(1, 1)
  \/ LoadTags(1)
  \/ \E s \in {"A", "b"} : Alone /\ handleAddTagCall(1, s)
  \/ handleAddTagResume(1)
  \/ \E tag \in Elems(modal.currentTags) : Alone /\ handleRemoveTag(tag)
  \/ Alone /\ handleSaveCall(1, "")
  \/ AddHighlightTag(1)
  \/ handleSave(1)
  \/ LoadAvailable(1)
  \/ Alone /\ CloseTagModal

SpecDelta == Init /\ [][NextDelta]_vars

\* the frame of the save in flight at caller c, which awaits a store call of its own
\* or an addHighlightTag
SaveFrame(c) == IF flights[c].op = "handleSave" THEN flights[c] ELSE flights[c].ctx

\* a save is in flight at caller c
InSave(c) == flights[c].op = "handleSave" \/ flights[c].ctx.op = "handleSave"

\* C22 (SpecDelta): every step of a save of the selection D for highlight h with links
\* O leaves the links of every other highlight as they are, adds links only for the
\* tags of D \ O, and removes links only for the tags of O \ D and only when every
\* add is done; so the links of h for O \cap D stay. Before the diff no link changes.
C22_ReconcileAppliesDeltaOnly ==
  [][InSave(1) =>
       LET fr == SaveFrame(1)
           O == TagIdsOf(Elems(fr.local.original))
           D == TagIdsOf(Elems(fr.local.finalTags))
       IN IF ~fr.local.diffed
            THEN db'.highlight_tags = db.highlight_tags
            ELSE /\ \A l \in db'.highlight_tags \ db.highlight_tags :
                      /\ l.highlight_id = fr.h
                      /\ \E tag \in Elems(fr.local.finalTags), r \in db'.tags :
                           tag.id \notin O /\ r.id = l.tag_id /\ NameEq(r.name, tag.name)
                 /\ \A l \in db.highlight_tags \ db'.highlight_tags :
                      /\ l.highlight_id = fr.h
                      /\ l.tag_id \in O \ D
                      /\ flights[1].op = "handleSave"
                      /\ fr.local.toAdd = <<>>]_vars

\* a save completed that added a link and removed another while another highlight
\* holds a link
C22_Witness ==
  /\ last.op = "handleSave"
  /\ last.err = OK
  /\ last.rows >= 2
  /\ highlightExists(db, last.ret)
  /\ LinkedIds(db, last.ret) # {}
  /\ \E l \in db.highlight_tags : l.highlight_id # last.ret

\* ------------------------------------------------------------------------
\* Comments
\* ------------------------------------------------------------------------
\* the comment texts and emojis typed into the comment form
CommentTexts == {"", "new"}
CommentEmojis == {"", "e2"}

\* updateHighlightComment that writes falsy values as NULL, as addHighlight does
updateHighlightComment_OrNull(d, h, commentText, commentEmoji) ==
  [d EXCEPT !.highlights =
     {IF r.highlight_id = h
        THEN [r EXCEPT !.comment_text = OrNull(commentText),
                       !.comment_emoji = OrNull(commentEmoji)]
        ELSE r : r \in @}]

\* UPDATE highlights SET comment_text = ?, comment_emoji = ? WHERE highlight_id = ?
updateHighlightComment(d, h, commentText, commentEmoji) ==
  [d EXCEPT !.highlights =
     {IF r.highlight_id = h
        THEN [r EXCEPT !.comment_text = commentText, !.comment_emoji = commentEmoji]
        ELSE r : r \in @}]

\* setHighlights(prev => prev.map(h => h.id === highlightId ? {...h, comment} : h))
CommentInto(highlights, highlightId, commentText, commentEmoji) ==
  [i \in DOMAIN highlights |->
     IF highlights[i].id = highlightId
       THEN [highlights[i] EXCEPT !.comment = [text |-> commentText, emoji |-> commentEmoji]]
       ELSE highlights[i]]

\* App.updateHighlightComment is called: with a current document the store call is
\* awaited first, without one the comment of the in-memory highlight is replaced at once
AppUpdateHighlightCommentCall(c, highlightId, commentText, commentEmoji) ==
  /\ flights[c].pc = "idle"
  /\ app.appState = "viewer"
  /\ IF app.currentPdfId # NoId
       THEN /\ flights' = [flights EXCEPT ![c] =
                             [op |-> "updateHighlightComment", pc |-> "update",
                              h |-> highlightId, arg |-> <<commentText, commentEmoji>>,
                              local |-> NULL, err |-> OK, ctx |-> NoCtx]]
            /\ UNCHANGED <<app, last>>
       ELSE /\ app' = [app EXCEPT !.highlights =
                         CommentInto(@, highlightId, commentText, commentEmoji)]
            /\ Done("updateHighlightComment", commentText, highlightId, OK, 0)
            /\ UNCHANGED flights
  /\ UNCHANGED <<db, tx, now, bulk, modal, calls, sidebar, conn>>

\* the UPDATE of databaseService.updateHighlightComment executes, or fails in the store
UpdateHighlightCommentWrite(c, fail) ==
  /\ flights[c].op = "updateHighlightComment"
  /\ flights[c].pc = "update"
  /\ IF fail
       THEN /\ flights' = [flights EXCEPT ![c].pc = "failed", ![c].err = ErrStore]
            /\ UNCHANGED db
       ELSE /\ flights' = [flights EXCEPT ![c].pc = "written"]
            /\ db' = updateHighlightComment(db, flights[c].h, flights[c].arg[1],
                                            flights[c].arg[2])
  /\ UNCHANGED <<tx, now, app, bulk, modal, last, calls, sidebar, conn>>

\* the store call has returned and App.updateHighlightComment resumes: its catch block
\* throws the error again, otherwise setHighlights replaces the comment
AppUpdateHighlightCommentSet(c) ==
  /\ flights[c].op = "updateHighlightComment"
  /\ flights[c].pc \in {"failed", "written"}
  /\ app' = IF flights[c].pc = "failed"
              THEN app
              ELSE [app EXCEPT !.highlights =
                      CommentInto(@, flights[c].h, flights[c].arg[1], flights[c].arg[2])]
  /\ Return(c)
  /\ Done("updateHighlightComment", flights[c].arg[1], flights[c].h, flights[c].err, 0)
  /\ UNCHANGED <<db, tx, now, bulk, modal, calls, sidebar, conn>>

\* the statements of an App.updateHighlightComment call in flight
AppUpdateHighlightComment(c) ==
  \/ \E fail \in BOOLEAN : UpdateHighlightCommentWrite(c, fail)
  \/ AppUpdateHighlightCommentSet(c)

\* commenting the highlights of a document, the first of them tagged or not; the
\* comments submitted are the text cleared, and a new text without emoji
NextComment ==
  \/ OpenAndAdd(SampleHighlight, MaxLoaded)
  \/ \E h \in {1} : Alone /\ AddHighlightTagCall(1, h, "a")
  \/ AddHighlightTag(1)
  \/ \E h \in 1..MaxLoaded, comment \in {<<"", "e2">>, <<"new", "">>} :
       Alone /\ AppUpdateHighlightCommentCall(1, h, comment[1], comment[2])
  \/ AppUpdateHighlightComment(1)

SpecComment == Init /\ [][NextComment]_vars

\* C23 (SpecComment): for every persisted highlight h and all values text, emoji, the
\* store after updateHighlightComment(h, text, emoji) has the row of h with exactly
\* these two values as its comment and every other column as before, and every other
\* row and table as before, and this is what the UPDATE of a call in flight does; when
\* the controller's updateHighlightComment resumes after a store write that failed it
\* leaves the in-memory list as it is, and after one that did not fail it replaces the
\* comment of h in memory and nothing else.
C23_UpdateCommentFrame ==
  [][/\ \A r \in db.highlights, text \in CommentTexts, emoji \in CommentEmojis :
          LET d2 == updateHighlightComment(db, r.highlight_id, text, emoji)
              new == RowOf(d2, r.highlight_id)
          IN /\ new = [r EXCEPT !.comment_text = text, !.comment_emoji = emoji]
             /\ d2.highlights \ {new} = db.highlights \ {r}
             /\ d2.pdfs = db.pdfs /\ d2.tags = db.tags
             /\ d2.highlight_tags = db.highlight_tags
             /\ d2.seqPdfs = db.seqPdfs /\ d2.seqTags = db.seqTags
     /\ (flights[1].op = "updateHighlightComment" /\ flights[1].pc = "update")
          => /\ app' = app
             /\ \/ flights'[1].pc = "failed" /\ db' = db
                \/ /\ flights'[1].pc = "written"
                   /\ db' = updateHighlightComment(db, flights[1].h, flights[1].arg[1],
                                                   flights[1].arg[2])
     /\ (flights[1].op = "updateHighlightComment" /\ flights[1].pc = "failed")
          => app' = app /\ db' = db /\ last'.err # OK
     /\ (flights[1].op = "updateHighlightComment" /\ flights[1].pc = "written")
          => /\ db' = db
             /\ last'.err = OK
             /\ DOMAIN app'.highlights = DOMAIN app.highlights
             /\ \A i \in DOMAIN app.highlights :
                  IF app.highlights[i].id = flights[1].h
                    THEN /\ app'.highlights[i].comment.text = flights[1].arg[1]
                         /\ app'.highlights[i].comment.emoji = flights[1].arg[2]
                         /\ app'.highlights[i].content = app.highlights[i].content
                         /\ app'.highlights[i].position = app.highlights[i].position
                         /\ app'.highlights[i].id = app.highlights[i].id
                         /\ highlightExists(db', flights[1].h) =>
                              /\ RowOf(db', flights[1].h).comment_text
                                   = app'.highlights[i].comment.text
                              /\ RowOf(db', flights[1].h).comment_emoji
                                   = app'.highlights[i].comment.emoji
                    ELSE app'.highlights[i] = app.highlights[i]]_vars

\* a comment was overwritten with the empty text on a tagged highlight, and before
\* that a write of this step's kind is possible on a second highlight
C23_Witness ==
  /\ last.op = "updateHighlightComment"
  /\ last.err = OK
  /\ last.arg = ""
  /\ highlightExists(db, last.ret)
  /\ RowOf(db, last.ret).comment_text = ""
  /\ RowOf(db, last.ret).comment_emoji = "e2"
  /\ \E l \in db.highlight_tags : l.highlight_id = last.ret
  /\ Cardinality(db.highlights) >= 2

\* the sidebar next to the tag dialog and the tag management dialog, used by a user
\* who waits for each handler
NextCache ==
  \/ SidebarTick
  \/ OpenAndAdd(SampleHighlight, MaxHighlights)
  \/ Alone /\ SidebarEffect(1)
  \/ LoadAvailable(1)
  \/ \E h \in HighlightIds : Alone /\ OpenTagModal(1, h)
  \/ LoadTags(1)
  \/ Alone /\ handleAddTagCall(1, "b")
  \/ handleAddTagResume(1)
  \/ \E tag \in Elems(modal.currentTags) : Alone /\ handleRemoveTag(tag)
  \/ Alone /\ handleSaveCall(1, "")
  \/ AddHighlightTag(1)
  \/ handleSave(1)
  \/ \E id \in TagIdsOf(db.tags) : Alone /\ handleConfirmDeleteCall(1, {id})
  \/ handleConfirmDelete(1)
  \/ Alone /\ showAllPdfs
  \/ Alone /\ backToViewer

SpecCache == Init /\ [][NextCache]_vars

\* the tagsCache holds an entry less than 30 seconds old under the key of pdfId
FreshEntry(cache, pdfId, t) ==
  cache.valid /\ (t - cache.timestamp) * MsPerTick < 30000 /\ cache.key = pdfId

\* C24 (SpecCache): loadAvailableTags answers from the cache exactly when the cache of
\* its render holds an entry less than 30 seconds old stored under the key of the
\* document of its render, and asks the store otherwise; and in the state a tag save
\* or a tag deletion leaves, the sidebar lists the tags that the store holds.
C24_AvailableTagsFresh ==
  [][/\ (flights[1].pc = "idle" /\ SidebarEffect(1))
          => IF FreshEntry(sidebar.tagsCache, app.currentPdfId, sidebar.clock)
               THEN /\ flights'[1].pc = "idle"
                    /\ sidebar'.availableTags = sidebar.tagsCache.tags
               ELSE flights'[1].pc = "getTags"
     /\ (SaveTagsTimer(1) \/ (handleConfirmDeleteResume(1) /\ flights[1].err = OK))
          => IF FreshEntry(flights[1].local.cache, flights[1].local.pdfId, sidebar.clock)
               THEN /\ flights'[1].pc = "idle"
                    /\ sidebar'.availableTags = flights[1].local.cache.tags
               ELSE flights'[1].pc = "getTags"
     /\ (flights[1].pc # "idle" /\ flights'[1].pc = "idle"
           /\ last'.op \in {"handleSaveTags", "handleTagsDeleted"})
          => sidebar'.availableTags = StoreTags(db', app'.currentPdfId)]_vars

\* ------------------------------------------------------------------------
\* addHighlightTag in flight: its three awaited statements, one step each
\* ------------------------------------------------------------------------
\* addHighlightTag calls in flight while highlights and tags are deleted
NextGate ==
  \/ OpenAndAdd(SampleHighlight, MaxHighlights)
  \/ LinkOps(CallIds, {"a", "b"}, FALSE)
  \/ \E h \in HighlightIds : DeleteHighlight(h)

SpecGate == Init /\ [][NextGate]_vars

\* C25 (SpecGate): when an addHighlightTag(h, n) call has resolved as the last
\* operation and no other call is in flight, whatever deleteHighlight or deleteTag
\* ran between its statements, highlight h has a row in highlights and every
\* highlight_tags row of h references a row of tags.
C25_ExistenceGateInterleaved ==
  (FlightsIdle /\ last.op = "addHighlightTag" /\ last.err = OK)
    => /\ highlightExists(db, last.ret)
       /\ \A l \in db.highlight_tags :
            l.highlight_id = last.ret => \E r \in db.tags : r.id = l.tag_id

\* ------------------------------------------------------------------------
\* updateHighlight in flight: the SELECT of the current row, then the UPDATE
\* ------------------------------------------------------------------------
\* the patches of the calls in flight: a move, a new screenshot, a change of page
FlightPatches ==
  {<<[NoPosition EXCEPT !["boundingRect"] = "R2"], NoContent>>,
   <<NoPosition, [NoContent EXCEPT !.image = "img2"]>>,
   <<[NoPosition EXCEPT !["pageNumber"] = "1"], NoContent>>}

NextLost ==
  \/ OpenAndAdd(SampleAreaHighlight, MaxHighlights)
  \/ \E c \in CallIds, h \in HighlightIds, patch \in FlightPatches :
       AppUpdateHighlightCall(c, h, patch[1], patch[2])
  \/ \E c \in CallIds : AppUpdateHighlight(c)

SpecLost == Init /\ [][NextLost]_vars

\* the patches name no field in common
Disjoint(p, q) ==
  /\ \A k \in PosKeys : p[1][k] = ABSENT \/ q[1][k] = ABSENT
  /\ \A k \in {"text", "image"} : p[2][k] = ABSENT \/ q[2][k] = ABSENT

\* the row carries every value of the patch
Carries(r, patch) ==
  /\ \A k \in PosKeys : patch[1][k] # ABSENT => JSONparse(r.position_data)[k] = patch[1][k]
  /\ patch[2].text # ABSENT => r.content_text = patch[2].text
  /\ patch[2].image # ABSENT => r.content_image = patch[2].image

\* C26 (SpecLost): when the UPDATE statements of two updateHighlight calls in flight on
\* the same stored highlight, with patches that name no field in common, have both
\* executed, the stored row carries the values of both patches, in whatever order their
\* SELECT and UPDATE statements ran.
C26_NoLostUpdate ==
  \A c1, c2 \in CallIds :
    (/\ c1 # c2
     /\ flights[c1].op = "updateHighlight" /\ flights[c2].op = "updateHighlight"
     /\ flights[c1].pc = "written" /\ flights[c2].pc = "written"
     /\ flights[c1].h = flights[c2].h
     /\ Disjoint(flights[c1].arg, flights[c2].arg))
      => \A r \in db.highlights :
           r.highlight_id = flights[c1].h
             => Carries(r, flights[c1].arg) /\ Carries(r, flights[c2].arg)

\* C27 (SpecMerge): in every state reached by addHighlight and updateHighlight calls,
\* the page_number column of each highlights row equals the pageNumber member of the
\* row's position_data.
C27_PageNumberConsistent ==
  \A r \in db.highlights : r.page_number = JSONparse(r.position_data)["pageNumber"]

\* ------------------------------------------------------------------------
\* DatabaseService.initialize / ensureInitialized with several callers
\* ------------------------------------------------------------------------
\* the callers in the effects of the first render: App.initializeDatabase (initialize),
\* Sidebar.loadAvailableTags with no document open (getAllTags) and
\* Sidebar.loadHighlightTags (getHighlightTags)
InitCallers == {"initialize", "getAllTags", "getHighlightTags"}

\* the call runs to its first await that is not already settled. With this.db null
\* (tested by ensureInitialized and again by initialize) Database.load is invoked, which
\* will resolve to a new connection object (local). With this.db set, initialize returns
\* at once, and a repository operation passes ensureInitialized and invokes its statement
\* on this.db (local).
EnsureInitializedCall(c, op) ==
  /\ flights[c].pc = "idle"
  /\ IF conn.db = NoId
       THEN /\ conn' = [conn EXCEPT !.loads = @ + 1]
            /\ flights' = [flights EXCEPT ![c] = [op |-> op, pc |-> "load", h |-> NoId, arg |-> "",
                                                  local |-> conn.loads + 1, err |-> OK, ctx |-> NoCtx]]
            /\ UNCHANGED last
       ELSE /\ IF op = "initialize"
                 THEN /\ Done(op, "", NoId, OK, 0)
                      /\ UNCHANGED flights
                 ELSE /\ flights' = [flights EXCEPT ![c] = [op |-> op, pc |-> "statement", h |-> NoId,
                                                            arg |-> "", local |-> conn.db, err |-> OK,
                                                            ctx |-> NoCtx]]
                      /\ UNCHANGED last
            /\ UNCHANGED conn
  /\ UNCHANGED <<db, tx, now, app, bulk, modal, calls, sidebar>>

\* Database.load resolves: the connection is assigned to this.db and, in the same
\* continuation, the table check (SELECT name FROM sqlite_master) is invoked on it
LoadResolved(c) ==
  /\ flights[c].op \in InitCallers
  /\ flights[c].pc = "load"
  /\ conn' = [conn EXCEPT !.db = flights[c].local]
  /\ flights' = [flights EXCEPT ![c].pc = "tableCheck"]
  /\ UNCHANGED <<db, tx, now, app, bulk, modal, last, calls, sidebar>>

\* the table check resolves and initialize returns; a repository operation continues
\* after ensureInitialized and invokes its statement on what this.db is now
TableCheckResolved(c) ==
  /\ flights[c].op \in InitCallers
  /\ flights[c].pc = "tableCheck"
  /\ IF flights[c].op = "initialize"
       THEN /\ Done(flights[c].op, "", flights[c].local, OK, 0)
            /\ Return(c)
       ELSE /\ flights' = [flights EXCEPT ![c].pc = "statement", ![c].local = conn.db]
            /\ UNCHANGED last
  /\ UNCHANGED <<db, tx, now, app, bulk, modal, calls, sidebar, conn>>

\* the statement of the repository operation resolves and the operation returns
StatementResolved(c) ==
  /\ flights[c].op \in InitCallers
  /\ flights[c].pc = "statement"
  /\ Done(flights[c].op, "", flights[c].local, OK, 0)
  /\ Return(c)
  /\ UNCHANGED <<db, tx, now, app, bulk, modal, calls, sidebar, conn>>

NextInit ==
  \/ \E c \in CallIds, op \in InitCallers : EnsureInitializedCall(c, op)
  \/ \E c \in CallIds : LoadResolved(c)
  \/ \E c \in CallIds : TableCheckResolved(c)
  \/ \E c \in CallIds : StatementResolved(c)

SpecInit == Init /\ [][NextInit]_vars

\* C28 (SpecInit): however the callers of initialize and ensureInitialized interleave,
\* Database.load is invoked at most once, and any two calls with a statement in flight
\* (the table check of initialize, the statement of a repository operation) invoked it
\* on the same connection object.
C28_SingleConnection ==
  /\ conn.loads <= 1
  /\ \A c1, c2 \in CallIds :
       /\ flights[c1].op \in InitCallers /\ flights[c2].op \in InitCallers
       /\ flights[c1].pc \in {"tableCheck", "statement"}
       /\ flights[c2].pc \in {"tableCheck", "statement"}
       => flights[c1].local = flights[c2].local

\* ------------------------------------------------------------------------
\* The controller's list: App.addHighlight in flight while openPdf switches the
\* document, and the Sidebar and library buttons
\* ------------------------------------------------------------------------
NextSwitch ==
  \/ \E c \in CallIds, p \in Paths : OpenPdfCall(c, p, FileNameOf(p))
  \/ \E c \in CallIds : openPdf(c)
  \/ \E c \in CallIds : AppAddHighlightCall(c, SampleHighlight, MaxLoaded)
  \/ \E c \in CallIds : AppAddHighlight(c)
  \/ resetHighlights
  \/ toggleDocument
  \/ showAllPdfs
  \/ backToViewer

SpecSwitch == Init /\ [][NextSwitch]_vars

\* C29 (SpecSwitch): in every state of the controller, each highlight of the in-memory
\* list that has a row in the store is stored under the current document; a highlight
\* whose store write was pending when openPdf switched the document is not in the list
\* of the new document.
C29_ListMatchesDocument ==
  \A i \in DOMAIN app.highlights :
    \A r \in db.highlights :
      r.highlight_id = app.highlights[i].id => r.pdf_id = app.currentPdfId

\* ------------------------------------------------------------------------
\* Tag dialog sessions that are closed without Save
\* ------------------------------------------------------------------------
\* tag b is linked outside the dialog; in the dialog the user types A or " a", removes
\* tags from the selection and closes without Save
NextCancel ==
  \/ OpenAndAdd(SampleHighlight, MaxLoaded)
  \/ \E h \in 1..MaxLoaded : Alone /\ AddHighlightTagCall(1, h, "b")
  \/ AddHighlightTag(1)
  \/ \E h \in 1..MaxLoaded : Alone /\ OpenTagModal(1, h)
  \/ LoadTags(1)
  \/ \E s \in {"A", " a"} : Alone /\ handleAddTagCall(1, s)
  \/ handleAddTagResume(1)
  \/ \E tag \in Elems(modal.currentTags) : Alone /\ handleRemoveTag(tag)
  \/ CloseTagModal

SpecCancel == Init /\ [][NextCancel]_vars

\* C30 (SpecCancel): when every tag dialog session is closed without Save, the dialog
\* leaves tags and highlight_tags as they were when it was opened; so, with b the only
\* tag written outside the dialog, whenever the dialog is closed every row of tags is
\* named b and every row of highlight_tags references that tag.
C30_CancelLeavesStore ==
  ~modal.isOpen
    => /\ \A r \in db.tags : r.name = "b"
       /\ \A l \in db.highlight_tags : \E r \in db.tags : r.id = l.tag_id /\ r.name = "b"

====
